---------------------------- MODULE Spec2Model ----------------------------
(***************************************************************************)
(* A state-machine model of the ecosystem simulation core: the chained     *)
(* per-tick organism systems (organisms/mod.rs, organisms/systems.rs), the *)
(* sensory/decision procedure (organisms/behavior.rs) and the resource     *)
(* grid passes (world/resources.rs, world/mod.rs).                         *)
(*                                                                         *)
(* Real numbers are fixed-point integers.  Units:                          *)
(*   energy                         1/100                                  *)
(*   resource density, pressure     1/1000                                 *)
(*   dt (frame delta, seconds)      1/10                                   *)
(*   traits in [0,1] and ratios     1/100                                  *)
(*   metabolism_rate, movement_cost 1/1000                                 *)
(*   size                           1/10                                   *)
(*   hunger_memory, threat_timer    1/1000                                 *)
(*   hunger_memory_rate,                                                   *)
(*     threat_decay_rate            1/100                                  *)
(*   clutch_size                    1/10                                   *)
(*   genes                          1/100                                  *)
(*   positions, ranges, velocities  1 world unit (per second)              *)
(* Divisions round toward minus infinity (\div).                           *)
(***************************************************************************)
EXTENDS Integers, Sequences, FiniteSets, TLC

VARIABLES
    pc,        \* index into PassOrder of the next system of the chain to run
    tick,      \* number of completed frames
    dt,        \* Time::delta_seconds() of the current frame
    hist,      \* the systems that have run so far in the current frame
    alive,     \* entities that exist (they carry the Alive marker)
    org,       \* entity -> its components
    spatial,   \* SpatialHashGrid.organisms: entity -> indexed position
    nextEntity,\* the next entity id a spawn hands out
    grid,      \* WorldGrid: cell coordinate -> Cell
    tracker,   \* SpeciesTracker
    zeroed,    \* entities whose energy reached 0 during the current frame
    climate,   \* ClimateState: time, event_cooldown and the active events
    probe      \* the last call made by a function-level specification

vars == <<pc, tick, dt, hist, alive, org, spatial, nextEntity, grid, tracker,
          zeroed, climate, probe>>

--------------------------------------------------------------------------
(* Bounds of the model *)

MaxTick == 2          \* frames explored
MaxEntity == 3        \* entity ids handed out (initial population + spawns)
GenomeLen == 2        \* genes carried per genome (the leading ones of GENOME_SIZE)
ChunkSide == 2        \* width in cells of the chunk of the resource passes
MaxSteps == 2         \* resource steps explored in a row

(* Program constants *)

MAX_POS == 200               \* update_movement: max_pos

Min(a, b) == IF a <= b THEN a ELSE b
Max(a, b) == IF a >= b THEN a ELSE b
Abs(a) == IF a >= 0 THEN a ELSE -a
Clamp(v, lo, hi) == Max(lo, Min(v, hi))     \* f32::clamp

RECURSIVE ISqrtBS(_, _, _)
ISqrtBS(n, lo, hi) ==
    IF lo >= hi THEN lo
    ELSE LET mid == (lo + hi + 1) \div 2
         IN IF mid * mid <= n THEN ISqrtBS(n, mid, hi) ELSE ISqrtBS(n, lo, mid - 1)
ISqrt(n) == ISqrtBS(n, 0, Min(n, 46340))    \* floor of the square root

Types == {"Producer", "Consumer", "Decomposer"}
States == {"Wandering", "Chasing", "Eating", "Fleeing", "Mating", "Resting",
           "Migrating"}
Resources == {"Plant", "Mineral", "Sunlight", "Water", "Detritus", "Prey"}
\* Option<T>: None is the empty set, Some(x) the singleton {x}.
None == {}
Some(x) == {x}
Get(opt) == CHOOSE x \in opt : TRUE

(* Squared Euclidean distance of two positions, and the distance in 1/100. *)
D2(p, q) == (p[1] - q[1]) * (p[1] - q[1]) + (p[2] - q[2]) * (p[2] - q[2])
Dist100(p, q) == ISqrt(10000 * D2(p, q))


--------------------------------------------------------------------------
(* Energy (components.rs) *)

\* Energy::ratio() compared with a threshold given in 1/100, without dividing.
mut_ratio_ge_strict(energy, t100) ==
    IF energy.max > 0 THEN energy.current * 100 > t100 * energy.max ELSE 0 > t100
ratio_ge(energy, t100) ==
    IF energy.max > 0 THEN energy.current * 100 >= t100 * energy.max ELSE 0 >= t100
ratio_gt(energy, t100) ==
    IF energy.max > 0 THEN energy.current * 100 > t100 * energy.max ELSE 0 > t100
ratio_lt(energy, t100) == ~ratio_ge(energy, t100)

is_dead(energy) == energy.current <= 0

\* Energy::with_energy(max, current)
with_energy(max, current) == [current |-> Min(current, max), max |-> max]

--------------------------------------------------------------------------
(* Behavior record (behavior.rs) *)

\* Behavior::default()
BehaviorDefault ==
    [state |-> "Wandering", target_entity |-> None, target_position |-> None,
     state_time |-> 0, hunger_memory |-> 0, threat_timer |-> 0,
     recent_threat |-> None, migration_target |-> None]

mut_set_state_keeps_targets(b, new_state) ==
    IF b.state # new_state
    THEN [b EXCEPT !.state = new_state, !.state_time = 0,
                   !.migration_target =
                       IF new_state # "Migrating" THEN None ELSE @]
    ELSE b
\* Behavior::set_state
set_state(b, new_state) ==
    IF b.state # new_state
    THEN [b EXCEPT !.state = new_state, !.state_time = 0,
                   !.target_entity = None, !.target_position = None,
                   !.migration_target =
                       IF new_state # "Migrating" THEN None ELSE @]
    ELSE b

--------------------------------------------------------------------------
(* Sensory collection (behavior.rs) *)

\* is_predator_of: sizes are in 1/10, so a > 1.5 * b is 10 * a > 15 * b.
is_predator_of(predator_type, prey_type, predator_size, prey_size) ==
    IF predator_type = "Consumer" /\ prey_type = "Consumer"
    THEN predator_size * 10 > prey_size * 15
    ELSE IF predator_type = "Consumer" /\ prey_type = "Producer" THEN TRUE
    ELSE IF predator_type = "Consumer" /\ prey_type = "Decomposer" THEN TRUE
    ELSE FALSE

is_prey_of(predator_type, prey_type, predator_size, prey_size) ==
    is_predator_of(predator_type, prey_type, predator_size, prey_size)

\* SpatialHash::query_radius: the identities indexed within distance r of p.
query_radius(index, p, r) == {e \in DOMAIN index : D2(index[e], p) <= r * r}

\* The orders in which a query result may be returned (a Vec built from a hash
\* map: any order, no duplicates).
RECURSIVE Orders(_)
Orders(S) ==
    IF S = {} THEN {<<>>}
    ELSE UNION {{<<x>> \o s : s \in Orders(S \ {x})} : x \in S}

\* The Vec a radius query returns when the index enumerates its entries in the
\* order `perm`.
QueryVec(perm, p, r) ==
    SelectSeq(perm, LAMBDA e : e \in query_radius(spatial, p, r))

\* The element the loop `Some(cur) if cur.distance <= d => {} ; _ => replace`
\* and Iterator::min_by both end with: the first of the minimal ones.
FirstMin(s) ==
    LET i == CHOOSE i \in 1..Len(s) :
                 /\ \A j \in 1..Len(s) : s[i].d2 <= s[j].d2
                 /\ \A j \in 1..(i - 1) : s[j].d2 > s[i].d2
    IN s[i]

\* The scan order of the resource loop: dy outermost, then dx, then the
\* resource list [Plant, Water, Detritus, Prey].
ScannedResources == <<"Plant", "Water", "Detritus", "Prey">>
ScanRank(r) == CHOOSE i \in 1..Len(ScannedResources) : ScannedResources[i] = r
ScanBefore(a, b) ==
    \/ a.pos[2] < b.pos[2]
    \/ a.pos[2] = b.pos[2] /\ a.pos[1] < b.pos[1]
    \/ a.pos = b.pos /\ ScanRank(a.rtype) < ScanRank(b.rtype)
\* The order of nearby_resources after the stable sort by distance.
SortBefore(a, b) == a.d2 < b.d2 \/ (a.d2 = b.d2 /\ ScanBefore(a, b))

ZeroResources == [r \in Resources |-> 0]

\* WorldGrid::get_cell on a world position: the cell, or None where no chunk
\* exists.
get_cell(p) == IF p \in DOMAIN grid THEN Some(grid[p]) ELSE None

\* The two flag computations of collect_sensory_data (behavior.rs 141-143), with
\* the arguments in the order the call sites pass them.
sensed_is_predator(organism_type, size, other_type, other_size) ==
    is_predator_of(organism_type, other_type, other_size, size)
sensed_is_prey(organism_type, size, other_type, other_size) ==
    is_prey_of(organism_type, other_type, size, other_size)

\* collect_sensory_data; `order` is the Vec query_radius returned.
collect_sensory_data(entity, position, sensory_range, species_id, organism_type, size, order) ==
    LET seen == SelectSeq(order, LAMBDA x :
                    /\ x # entity
                    /\ x \in alive
                    /\ D2(position, org[x].pos) <= sensory_range * sensory_range)
        entry(x) ==
            LET o == org[x] d2 == D2(position, o.pos)
            IN [entity |-> x, pos |-> o.pos, d2 |-> d2,
                is_predator |-> sensed_is_predator(organism_type, size, o.type, o.size),
                is_prey |-> sensed_is_prey(organism_type, size, o.type, o.size),
                is_mate |-> /\ o.species = species_id
                            /\ o.type = organism_type
                            /\ ~is_dead(o.energy)
                            /\ 4 * d2 <= sensory_range * sensory_range]
        nearby == [i \in 1..Len(seen) |-> entry(seen[i])]
        preds == SelectSeq(nearby, LAMBDA n : n.is_predator)
        cell == get_cell(position)
        readings == {[pos |-> c, rtype |-> r, d2 |-> D2(c, position),
                      value |-> grid[c].resource_density[r]] :
                        c \in {c \in DOMAIN grid : D2(c, position) <= sensory_range * sensory_range},
                        r \in {ScannedResources[i] : i \in DOMAIN ScannedResources}}
        res == {x \in readings : x.value > 100}
        top == {x \in res : \A y \in res : y.value <= x.value}
    IN [nearby_organisms |-> nearby,
        nearby_resources |-> res,
        current_cell_resources |->
            IF cell = None THEN ZeroResources ELSE Get(cell).resource_density,
        nearest_predator |-> IF preds = <<>> THEN None ELSE Some(FirstMin(preds)),
        richest_resource |->
            IF res = {} THEN None
            ELSE Some(CHOOSE x \in top : \A y \in top : y = x \/ ScanBefore(x, y))]

--------------------------------------------------------------------------
(* Decision procedure (behavior.rs) *)

Decision(st, te, tp, mt) ==
    [state |-> st, target_entity |-> te, target_position |-> tp,
     migration_target |-> mt]

\* distance < t, for a squared distance and a threshold in 1/100.
closer_than(d2, t100) == t100 > 0 /\ 10000 * d2 < t100 * t100

mut_flee_threshold_no_bonus(traits, threat_timer) ==
    800 + traits.boldness * 14 + traits.risk_tolerance * 6
\* flee_threshold + memory_bonus (in 1/100)
flee_threshold(traits, threat_timer) ==
    800 + traits.boldness * 14 + traits.risk_tolerance * 6
        + (IF threat_timer > 0 THEN 500 ELSE 0)

\* hunger_barrier in 1/10000
hunger_barrier(traits) == Clamp(3000 - 15 * traits.foraging_drive, 1000, 5000)

\* hunger_pressure > hunger_barrier; both sides multiplied by energy.max.
hunger_exceeds(energy, hunger_memory, traits) ==
    IF energy.max > 0
    THEN 7000 * Max(0, energy.max - energy.current) + 3 * hunger_memory * energy.max
             > hunger_barrier(traits) * energy.max
    ELSE 7000 + 3 * hunger_memory > hunger_barrier(traits)

PreferredResources(organism_type) ==
    CASE organism_type = "Producer" -> {"Sunlight", "Water", "Mineral"}
      [] organism_type = "Consumer" -> {"Prey", "Plant"}
      [] organism_type = "Decomposer" -> {"Detritus"}

\* find_best_food_source_weighted: the position of the first best-scored
\* reading of a preferred resource above 0.2, or None.  Scores are in 1e-6.
find_best_food_source_weighted(organism_type, sensory, selectivity) ==
    LET cands == {x \in sensory.nearby_resources :
                     x.rtype \in PreferredResources(organism_type) /\ x.value > 200}
        score(x) == 10 * x.value * (100 + selectivity)
                        - ISqrt(10000 * x.d2) * (1000 + 5 * (100 - selectivity))
        best == {x \in cands : \A y \in cands : score(y) <= score(x)}
    IN IF cands = {} THEN None
       ELSE Some((CHOOSE x \in best : \A y \in best : y = x \/ SortBefore(x, y)).pos)

\* is_at_food_source
is_at_food_source(organism_type, sensory) ==
    LET preferred == CASE organism_type = "Producer" -> {"Sunlight", "Water"}
                       [] organism_type = "Consumer" -> {"Plant", "Prey"}
                       [] organism_type = "Decomposer" -> {"Detritus"}
    IN \E r \in preferred : sensory.current_cell_resources[r] > 200

\* decide_behavior_with_memory: the first rule that fires decides.
decide_behavior_with_memory(energy, traits, organism_type, sensory, current_state, state_time, hunger_memory, threat_timer, recent_threat, has_migration_target) ==
    LET seen == sensory.nearest_predator # None
        pred == Get(sensory.nearest_predator)
        flee_now == /\ seen
                    /\ closer_than(pred.d2, flee_threshold(traits, threat_timer))
        flee_memory == ~seen /\ threat_timer > 0 /\ recent_threat # None
        hungry == hunger_exceeds(energy, hunger_memory, traits)
        best_food == find_best_food_source_weighted(organism_type, sensory,
                                                    traits.resource_selectivity)
        preys == SelectSeq(sensory.nearby_organisms, LAMBDA n : n.is_prey)
        hunts == /\ organism_type = "Consumer"
                 /\ ratio_gt(energy, 40)
                 /\ traits.aggression > 50
                 /\ preys # <<>>
        prey == FirstMin(preys)
        mates == SelectSeq(sensory.nearby_organisms, LAMBDA n : n.is_mate)
        mate == FirstMin(mates)
    IN IF flee_now THEN Decision("Fleeing", Some(pred.entity), Some(pred.pos), None)
       ELSE IF flee_memory THEN Decision("Fleeing", None, recent_threat, None)
       ELSE IF hungry /\ best_food # None
            THEN IF current_state = "Eating" /\ state_time < 20
                 THEN Decision("Eating", None, best_food, None)
                 ELSE Decision("Chasing", None, best_food, None)
       ELSE IF hungry /\ is_at_food_source(organism_type, sensory)
            THEN Decision("Eating", None, None, None)
       ELSE IF hunts /\ prey.d2 < 25
            THEN Decision("Eating", Some(prey.entity), Some(prey.pos), None)
       ELSE IF hunts /\ prey.d2 < 900
            THEN Decision("Chasing", Some(prey.entity), Some(prey.pos), None)
       ELSE IF /\ ratio_ge(energy, traits.reproduction_threshold)
               /\ mates # <<>>
               /\ mate.d2 < 225
            THEN Decision("Mating", Some(mate.entity), Some(mate.pos), None)
       ELSE IF ratio_lt(energy, 15) THEN Decision("Resting", None, None, None)
       ELSE IF /\ ~has_migration_target
               /\ traits.exploration_drive > 40
               /\ sensory.nearby_resources = {}
               /\ sensory.richest_resource # None
            THEN Decision("Migrating", None, None, Some(Get(sensory.richest_resource).pos))
       ELSE Decision("Wandering", None, None, None)

\* The hunger memory (1/1000) after the update of one pass.
hunger_memory_update(hunger_memory, energy, rate) ==
    LET hunger_input1000 == IF energy.max > 0
                            THEN Max(0, (1000 * (energy.max - energy.current))
                                            \div energy.max)
                            ELSE 1000
        hm1 == Min(hunger_memory + (hunger_input1000 * rate * dt) \div 1000, 2000)
    IN (hm1 * Max(1000 - 25 * dt, 650)) \div 1000

mut_threat_timer_uncapped(threat_timer, seen, rate) ==
    IF seen THEN threat_timer + 10 * rate ELSE Max(threat_timer - dt * rate, 0)
\* The threat timer (1/1000) after the update of one pass; `seen` tells whether
\* the sensory data holds a nearest predator.
threat_timer_update(threat_timer, seen, rate) ==
    IF seen THEN Min(threat_timer + 10 * rate, 10000)
    ELSE Max(threat_timer - dt * rate, 0)

mut_recent_threat_kept(recent_threat, timer, sensory) ==
    IF sensory.nearest_predator # None THEN Some(Get(sensory.nearest_predator).pos)
    ELSE recent_threat
\* The remembered threat position after the update of one pass, the timer
\* being already updated.
recent_threat_update(recent_threat, timer, sensory) ==
    IF sensory.nearest_predator # None THEN Some(Get(sensory.nearest_predator).pos)
    ELSE IF timer <= 0 THEN None ELSE recent_threat

\* The body of update_behavior's loop for one organism: its new Behavior.
\* `o` is the organism's components, `order` the Vec its radius query returned.
update_behavior_one(entity, o, order) ==
    LET b0 == o.behavior
        b1 == [b0 EXCEPT !.state_time = @ + dt,
                         !.migration_target =
                             IF @ # None /\ D2(o.pos, Get(@)) < 16 THEN None ELSE @]
        hm2 == hunger_memory_update(b1.hunger_memory, o.energy, o.traits.hunger_memory_rate)
        sensory == collect_sensory_data(entity, o.pos, o.traits.sensory_range,
                                        o.species, o.type, o.size, order)
        seen == sensory.nearest_predator # None
        tt == threat_timer_update(b1.threat_timer, seen, o.traits.threat_decay_rate)
        rt == recent_threat_update(b1.recent_threat, tt, sensory)
        b2 == [b1 EXCEPT !.hunger_memory = hm2, !.threat_timer = tt,
                         !.recent_threat = rt]
        decision == decide_behavior_with_memory(
                        o.energy, o.traits, o.type, sensory, b2.state, b2.state_time,
                        b2.hunger_memory, b2.threat_timer, b2.recent_threat,
                        b2.migration_target # None)
        b3 == [set_state(b2, decision.state)
                   EXCEPT !.target_entity = decision.target_entity,
                          !.target_position = decision.target_position]
        mig == IF decision.migration_target # None THEN decision.migration_target
               ELSE IF b3.migration_target # None THEN b3.migration_target
               ELSE IF sensory.richest_resource # None
                    THEN Some(Get(sensory.richest_resource).pos)
               ELSE None
    IN IF b3.state = "Migrating" /\ mig # None
       THEN [b3 EXCEPT !.migration_target = mig]
       ELSE b3

--------------------------------------------------------------------------
(* Cell resource API (cell.rs) *)

\* Cell::set_resource
set_resource(cell, r, value) ==
    [cell EXCEPT !.resource_density[r] = Max(value, 0)]
\* Cell::add_resource
add_resource(cell, r, amount) ==
    [cell EXCEPT !.resource_density[r] = Max(@ + amount, 0)]
mut_add_pressure_uncapped(cell, r, amount) ==
    [cell EXCEPT !.resource_pressure[r] = @ + amount]
\* Cell::add_pressure
add_pressure(cell, r, amount) ==
    [cell EXCEPT !.resource_pressure[r] = Min(@ + amount, 10000)]

--------------------------------------------------------------------------
(* The chained organism systems (organisms/mod.rs, organisms/systems.rs) *)

mut_PassOrder_death_before_eating ==
    <<"update_spatial_hash", "update_metabolism", "update_behavior",
      "update_movement", "handle_death", "update_age", "handle_reproduction",
      "handle_eating", "update_speciation">>
\* The tuple handed to add_systems(Update, (...).chain()).
PassOrder ==
    <<"update_spatial_hash", "update_metabolism", "update_behavior",
      "update_movement", "handle_eating", "update_age", "handle_reproduction",
      "handle_death", "update_speciation">>

\* A chained system runs when the one before it has finished.
Runs(name) == PassOrder[pc] = name
Ran(name) == /\ hist' = IF pc = 1 THEN <<name>> ELSE Append(hist, name)
             /\ pc' = IF pc = Len(PassOrder) THEN 1 ELSE pc + 1
             /\ tick' = IF pc = Len(PassOrder) THEN tick + 1 ELSE tick

\* The frame deltas explored (1/10 s).
DtSet == {0, 10}

mut_rebuilt_keeps_entries(index, living, orgs) ==
    [e \in living |-> IF e \in DOMAIN index THEN index[e] ELSE orgs[e].pos]
\* The index after `organisms.clear()` and one insert per living organism.
rebuilt(index, living, orgs) == [e \in living |-> orgs[e].pos]

\* update_spatial_hash: clear and rebuild from the living organisms.  It is the
\* first system of a frame, so the frame's delta is drawn here.
update_spatial_hash ==
    /\ Runs("update_spatial_hash")
    /\ Ran("update_spatial_hash")
    /\ tick < MaxTick
    /\ \E d \in DtSet : dt' = d
    /\ spatial' = rebuilt(spatial, alive, org)
    /\ zeroed' = {}
    /\ UNCHANGED <<climate, alive, org, nextEntity, grid, tracker, probe>>

\* |velocity| in 1/100
speed100(o) == ISqrt(10000 * (o.vel[1] * o.vel[1] + o.vel[2] * o.vel[2]))

\* total_cost of update_metabolism, in energy units (1/100)
total_cost(o) ==
    (10 * o.traits.metabolism_rate * o.size * dt
        + speed100(o) * o.traits.movement_cost * dt) \div 10000

mut_metabolism_no_floor(o) ==
    [o EXCEPT !.energy.current = @ - total_cost(o)]
\* The loop body of update_metabolism.
metabolism_one(o) ==
    [o EXCEPT !.energy.current = Max(@ - total_cost(o), 0)]

\* Entities whose energy is 0 in `after` and was positive in `before`.
Zeroed(before, after) ==
    {e \in DOMAIN after : e \in DOMAIN before /\ before[e].energy.current > 0
                          /\ after[e].energy.current <= 0}

update_metabolism ==
    /\ Runs("update_metabolism")
    /\ Ran("update_metabolism")
    /\ org' = [e \in alive |-> metabolism_one(org[e])]
    /\ zeroed' = zeroed \cup Zeroed(org, org')
    /\ UNCHANGED <<climate, dt, alive, spatial, nextEntity, grid, tracker, probe>>

\* update_behavior: every organism decides from the index, the grid and the
\* other organisms' position, species, type, size and energy, none of which
\* this system writes.
update_behavior ==
    /\ Runs("update_behavior")
    /\ Ran("update_behavior")
    /\ \E perm \in Orders(DOMAIN spatial) :
          org' = [e \in alive |->
                     [org[e] EXCEPT !.behavior =
                          update_behavior_one(e, org[e],
                              QueryVec(perm, org[e].pos, org[e].traits.sensory_range))]]
    /\ UNCHANGED <<climate, dt, alive, spatial, nextEntity, grid, tracker, zeroed, probe>>

\* The unit headings Vec2::from_angle can give the time-driven pseudo-random
\* walks (two axis directions).
Headings == {<<1, 0>>, <<0, -1>>}

\* (to - from).normalize_or_zero() * magnitude
Toward(from, to, magnitude) ==
    LET d == Dist100(from, to)
    IN IF d = 0 THEN <<0, 0>>
       ELSE <<((to[1] - from[1]) * 100 * magnitude) \div d,
              ((to[2] - from[2]) * 100 * magnitude) \div d>>

\* calculate_behavior_velocity; `heading` stands for the pseudo-random angle.
calculate_behavior_velocity(b, position, traits, energy, heading) ==
    LET ratio100 == IF energy.max > 0 THEN (100 * energy.current) \div energy.max ELSE 0
        current_speed == (traits.speed * Max(ratio100, 30)) \div 100
        Away(from) == Toward(from, position, (current_speed * 15) \div 10)
        Random(mult10) == <<(heading[1] * current_speed * mult10) \div 10,
                            (heading[2] * current_speed * mult10) \div 10>>
    IN CASE b.state = "Fleeing" ->
              IF b.target_position # None THEN Away(Get(b.target_position))
              ELSE IF b.recent_threat # None THEN Away(Get(b.recent_threat))
              ELSE Random(10)
         [] b.state = "Chasing" ->
              IF b.target_position # None
              THEN Toward(position, Get(b.target_position), current_speed)
              ELSE <<0, 0>>
         [] b.state = "Eating" -> <<0, 0>>
         [] b.state = "Mating" ->
              IF b.target_position # None
              THEN Toward(position, Get(b.target_position), current_speed \div 2)
              ELSE <<0, 0>>
         [] b.state = "Resting" -> <<0, 0>>
         [] b.state = "Migrating" ->
              IF b.migration_target # None
              THEN Toward(position, Get(b.migration_target), (current_speed * 8) \div 10)
              ELSE IF b.target_position # None
              THEN Toward(position, Get(b.target_position), (current_speed * 8) \div 10)
              ELSE Random(5)
         [] b.state = "Wandering" -> Random(7)

\* Whether calculate_behavior_velocity reads the pseudo-random angle.
UsesHeading(b) ==
    \/ b.state = "Wandering"
    \/ b.state = "Fleeing" /\ b.target_position = None /\ b.recent_threat = None
    \/ b.state = "Migrating" /\ b.migration_target = None /\ b.target_position = None

\* The loop body of update_movement.
movement_one(o, heading) ==
    IF is_dead(o.energy) THEN [o EXCEPT !.vel = <<0, 0>>]
    ELSE LET desired == calculate_behavior_velocity(o.behavior, o.pos, o.traits,
                                                    o.energy, heading)
             lerp == <<o.vel[1] + ((desired[1] - o.vel[1]) * 3) \div 10,
                       o.vel[2] + ((desired[2] - o.vel[2]) * 3) \div 10>>
             v == IF o.behavior.state \in {"Wandering", "Resting"}
                  THEN <<(lerp[1] * 98) \div 100, (lerp[2] * 98) \div 100>>
                  ELSE lerp
             moved == <<o.pos[1] + (v[1] * dt) \div 10, o.pos[2] + (v[2] * dt) \div 10>>
         IN [o EXCEPT !.vel = v,
                      !.pos = <<Clamp(moved[1], -MAX_POS, MAX_POS),
                                Clamp(moved[2], -MAX_POS, MAX_POS)>>]

update_movement ==
    /\ Runs("update_movement")
    /\ Ran("update_movement")
    /\ \E h \in [alive -> Headings] :
          /\ \A e \in alive : UsesHeading(org[e].behavior) \/ h[e] = <<1, 0>>
          /\ org' = [e \in alive |-> movement_one(org[e], h[e])]
    /\ UNCHANGED <<climate, dt, alive, spatial, nextEntity, grid, tracker, zeroed, probe>>

\* The resources handle_eating's match arm of a type reads and writes.
EatenResources(organism_type) ==
    CASE organism_type = "Producer" -> {"Sunlight", "Water", "Mineral"}
      [] organism_type = "Consumer" -> {"Plant", "Prey"}
      [] organism_type = "Decomposer" -> {"Detritus"}

\* What one Eating organism takes from its cell: the amounts per resource and
\* the energy gained (1/100).
Taken(organism_type, cell) ==
    LET have(r) == cell.resource_density[r]
    IN CASE organism_type = "Producer" ->
              [r \in Resources |->
                  CASE r = "Sunlight" -> Min(have(r), 500 * dt)
                    [] r = "Water" -> Min(have(r), 250 * dt)
                    [] r = "Mineral" -> Min(have(r), 100 * dt)
                    [] OTHER -> 0]
         [] organism_type = "Consumer" ->
              [r \in Resources |->
                  IF r \in {"Plant", "Prey"} THEN Min(have(r), 500 * dt) ELSE 0]
         [] organism_type = "Decomposer" ->
              [r \in Resources |->
                  IF r = "Detritus" THEN Min(have(r), 500 * dt) ELSE 0]

Consumed(organism_type, taken) ==
    CASE organism_type = "Producer" ->
            (3 * (taken["Sunlight"] + taken["Water"] + taken["Mineral"])) \div 100
      [] organism_type = "Consumer" ->
            (3 * (taken["Plant"] + 2 * taken["Prey"])) \div 100
      [] organism_type = "Decomposer" -> (15 * taken["Detritus"]) \div 1000

\* The cell after the set_resource and add_pressure calls of one eater.
CellAfterEating(organism_type, cell) ==
    LET taken == Taken(organism_type, cell)
        eaten == EatenResources(organism_type)
    IN [cell EXCEPT
          !.resource_density = [r \in Resources |->
              IF r \in eaten THEN set_resource(cell, r, cell.resource_density[r] - taken[r]).resource_density[r]
              ELSE @[r]],
          !.resource_pressure = [r \in Resources |->
              IF r \in eaten THEN add_pressure(cell, r, taken[r]).resource_pressure[r]
              ELSE @[r]]]

\* `energy.current = (energy.current + consumed).min(energy.max)`
gain(o, consumed) ==
    [o EXCEPT !.energy.current = Min(@ + consumed, o.energy.max)]

\* handle_eating's loop over the organisms in the order `seq`, from index i.
RECURSIVE EatFrom(_, _, _, _)
EatFrom(seq, i, orgs, g) ==
    IF i > Len(seq) THEN [orgs |-> orgs, grid |-> g]
    ELSE LET e == seq[i] o == orgs[e]
         IN IF o.behavior.state # "Eating" \/ o.pos \notin DOMAIN g
            THEN EatFrom(seq, i + 1, orgs, g)
            ELSE LET cell == g[o.pos]
                     consumed == Consumed(o.type, Taken(o.type, cell))
                 IN EatFrom(seq, i + 1,
                            [orgs EXCEPT ![e] = gain(o, consumed)],
                            [g EXCEPT ![o.pos] = CellAfterEating(o.type, cell)])

handle_eating ==
    /\ Runs("handle_eating")
    /\ Ran("handle_eating")
    /\ \E seq \in Orders(alive) :
          LET r == EatFrom(seq, 1, org, grid)
          IN org' = r.orgs /\ grid' = r.grid
    /\ UNCHANGED <<climate, dt, alive, spatial, nextEntity, tracker, zeroed, probe>>

\* ReproductionCooldown::decrement
mut_decrement_clears(cooldown) == 0
decrement(cooldown) == IF cooldown > 0 THEN cooldown - 1 ELSE cooldown

update_age ==
    /\ Runs("update_age")
    /\ Ran("update_age")
    /\ org' = [e \in alive |->
                  [org[e] EXCEPT !.age = @ + 1, !.cooldown = decrement(@)]]
    /\ UNCHANGED <<climate, dt, alive, spatial, nextEntity, grid, tracker, zeroed, probe>>

\* clutch_size.max(1.0).round().clamp(1.0, 6.0); the trait is in 1/10.
clutch_count(traits) == Clamp((Max(traits.clutch_size, 10) + 5) \div 10, 1, 6)

\* The two `continue` guards ahead of the 10% draw.
CanReproduce(o) ==
    o.cooldown = 0 /\ ratio_ge(o.energy, o.traits.reproduction_threshold)

mut_per_child_uncapped(o, count) ==
    (Max(o.energy.current, 0) * o.traits.offspring_energy_share) \div 100
\* per_child_energy of a reproduction event
per_child_energy(o, count) ==
    LET available == Max(o.energy.current, 0)
    IN Max(Min((available * o.traits.offspring_energy_share) \div 100,
               available \div count), 0)

\* The parent after its event: debited, cooldown reset.
parent_after(o, count) ==
    LET available == Max(o.energy.current, 0)
    IN [o EXCEPT !.energy.current =
                     Max(available - per_child_energy(o, count) * count, 0),
                 !.cooldown = Max(o.traits.reproduction_cooldown, 1)]

\* The bundle commands.spawn receives for one offspring.
offspring(parent, per_child, genome, traits, offset) ==
    [type |-> parent.type, species |-> parent.species,
     pos |-> <<parent.pos[1] + offset[1], parent.pos[2] + offset[2]>>,
     vel |-> <<0, 0>>,
     energy |-> with_energy(traits.max_energy,
                            Max(Min((per_child * 9) \div 10, traits.max_energy),
                                (traits.max_energy * 15) \div 100)),
     size |-> traits.size, age |-> 0,
     cooldown |-> Max(traits.reproduction_cooldown, 1),
     genome |-> genome, traits |-> traits, behavior |-> BehaviorDefault]

\* One entry per offspring of the events of the parents in S, parents in
\* ascending order: the parent of each.
RECURSIVE ParentsOfKids(_)
ParentsOfKids(S) ==
    IF S = {} THEN <<>>
    ELSE LET m == CHOOSE x \in S : \A y \in S : x <= y
         IN [i \in 1..clutch_count(org[m].traits) |-> m] \o ParentsOfKids(S \ {m})

--------------------------------------------------------------------------
(* Genomes (genetics.rs); genes are in 1/100 *)

\* The mutation step of one gene: `mutation` is (rng.f32() - 0.5) * 0.2 when the
\* rate draw succeeded, and 0 when it did not.
mut_mutate_gene_unclamped(gene, mutation) == gene + mutation
mutate_gene(gene, mutation) ==
    IF mutation = 0 THEN gene ELSE Clamp(gene + mutation, 0, 100)

\* Genome::new: the first GENOME_SIZE genes clamped to [0,1], padded with 0.5.
\* GenomeLen stands for GENOME_SIZE.
Genome_new(genes) ==
    [i \in 1..GenomeLen |-> IF i <= Len(genes) THEN Clamp(genes[i], 0, 100) ELSE 50]

\* Genome::get_gene (indices from 1)
get_gene(genome, i) ==
    IF i <= Len(genome) THEN Clamp(genome[i], 0, 100) ELSE 50

\* Genome::clone_with_mutation, for the per-gene draws `mutations`.
clone_with_mutation(genome, mutations) ==
    [i \in DOMAIN genome |-> mutate_gene(genome[i], mutations[i])]

\* Genome::crossover, for the per-gene draws `from_a` and `mutations`.
crossover(parent_a, parent_b, from_a, mutations) ==
    [i \in 1..GenomeLen |->
        mutate_gene(IF from_a[i] THEN get_gene(parent_a, i) ELSE get_gene(parent_b, i),
                    mutations[i])]

\* Genome::distance(a, b) < threshold, squared: the mean of the squared
\* differences against the squared threshold (1/100).
distance_below(a, b, threshold) ==
    LET n == Min(Len(a), Len(b))
        sq(i) == (a[i] - b[i]) * (a[i] - b[i])
        RECURSIVE Sum(_)
        Sum(i) == IF i = 0 THEN 0 ELSE sq(i) + Sum(i - 1)
    IN Sum(n) < threshold * threshold * n

\* The rng draws of one offspring explored: which genes mutate and by how much,
\* and which parent each gene comes from.
MutationDraws ==
    {[i \in 1..GenomeLen |-> 0], [i \in 1..GenomeLen |-> IF i = 1 THEN 10 ELSE 0]}
CrossoverDraws ==
    {[i \in 1..GenomeLen |-> TRUE], [i \in 1..GenomeLen |-> i % 2 = 0]}

--------------------------------------------------------------------------
(* Species tracker (speciation.rs) *)

\* SpeciesTracker::default()
TrackerDefault ==
    [species_centroids |-> [id \in {} |-> <<>>], next_species_id |-> 0, update_counter |-> 0,
     threshold |-> 15]

\* SpeciesTracker::find_or_create_species: the tracker afterwards and the id
\* returned, when the map is iterated in increasing `rank`.
find_or_create_species(t, genome, rank) ==
    LET hits == {id \in DOMAIN t.species_centroids :
                    distance_below(genome, t.species_centroids[id], t.threshold)}
        new_id == t.next_species_id
    IN IF hits # {}
       THEN [tracker |-> t,
             id |-> CHOOSE id \in hits : \A other \in hits : rank[id] <= rank[other]]
       ELSE [tracker |->
                 [t EXCEPT !.next_species_id = @ + 1,
                           !.species_centroids =
                               [id \in DOMAIN @ \cup {new_id} |->
                                   IF id = new_id THEN genome ELSE @[id]]],
             id |-> new_id]

\* SpeciesTracker::update_centroids over the living organisms `orgs`.
update_centroids(t, orgs) ==
    LET ids == {orgs[e].species : e \in DOMAIN orgs}
        members(id) == {e \in DOMAIN orgs : orgs[e].species = id}
        RECURSIVE GeneSum(_, _)
        GeneSum(S, i) == IF S = {} THEN 0
                         ELSE LET e == CHOOSE x \in S : TRUE
                              IN orgs[e].genome[i] + GeneSum(S \ {e}, i)
        avg(id) == [i \in 1..GenomeLen |->
                       Clamp((50 + GeneSum(members(id), i)) \div Cardinality(members(id)),
                             0, 100)]
    IN [t EXCEPT !.species_centroids =
            [id \in DOMAIN @ \cup ids |-> IF id \in ids THEN avg(id) ELSE @[id]]]

\* The reassignment loop of update_speciation over the organisms in the order
\* `seq`, from index i.
RECURSIVE ReassignFrom(_, _, _, _, _)
ReassignFrom(seq, i, t, orgs, rank) ==
    IF i > Len(seq) THEN [tracker |-> t, orgs |-> orgs]
    ELSE LET r == find_or_create_species(t, orgs[seq[i]].genome, rank)
         IN ReassignFrom(seq, i + 1, r.tracker,
                         [orgs EXCEPT ![seq[i]].species = r.id], rank)

--------------------------------------------------------------------------
(* handle_reproduction, handle_death, update_speciation *)

\* The mate search of one event: the first same-species organism of the query
\* result that lies within sensory range.
find_mate(entity, o, order) ==
    LET ok == SelectSeq(order, LAMBDA x :
                  /\ x # entity
                  /\ x \in alive
                  /\ org[x].species = o.species
                  /\ D2(o.pos, org[x].pos) <= o.traits.sensory_range * o.traits.sensory_range)
    IN IF ok = <<>> THEN None ELSE Some(ok[1])

\* Trait profiles CachedTraits::from_genome can express (every value inside the
\* open range of its express_* function).
Sturdy ==
    [speed |-> 5, size |-> 29, metabolism_rate |-> 29, movement_cost |-> 100,
     max_energy |-> 4100, reproduction_cooldown |-> 351,
     reproduction_threshold |-> 46, sensory_range |-> 7, aggression |-> 60,
     boldness |-> 50, foraging_drive |-> 50, risk_tolerance |-> 50,
     exploration_drive |-> 50, clutch_size |-> 11, offspring_energy_share |-> 44,
     hunger_memory_rate |-> 100, threat_decay_rate |-> 100,
     resource_selectivity |-> 50]
Slight ==
    [Sturdy EXCEPT !.size = 10, !.max_energy = 5000, !.aggression = 40,
                   !.reproduction_threshold = 90, !.sensory_range = 6]
TraitProfiles == {Sturdy, Slight}

\* Offsets `rng.f32() * 10.0 - 5.0` gives the two coordinates.
Offsets == {<<-5, 0>>, <<4, 3>>}

\* The rng draws of one offspring.
Draws == [mutations : MutationDraws, from_a : CrossoverDraws, offset : Offsets,
          traits : TraitProfiles]

\* The genome pushed for one offspring of `parent`.
offspring_genome(parent, mate, draw) ==
    IF mate = None THEN clone_with_mutation(parent.genome, draw.mutations)
    ELSE crossover(parent.genome, org[Get(mate)].genome, draw.from_a, draw.mutations)

\* handle_reproduction: R holds the parents that pass the 10% draw, `sexual`
\* those whose 35% draw succeeds.  The spawn commands are applied when the
\* system ends.
handle_reproduction ==
    /\ Runs("handle_reproduction")
    /\ Ran("handle_reproduction")
    /\ \E R \in SUBSET {e \in alive : CanReproduce(org[e])} :
          LET kids == ParentsOfKids(R)
              n == Len(kids)
              ids == nextEntity..(nextEntity + n - 1)
              count(p) == clutch_count(org[p].traits)
          IN /\ nextEntity + n - 1 <= MaxEntity
             /\ \E perm \in Orders(DOMAIN spatial), sexual \in SUBSET R, draw \in [1..n -> Draws] :
                   LET mate(p) ==
                           IF p \in sexual
                           THEN find_mate(p, org[p], QueryVec(perm, org[p].pos,
                                                              org[p].traits.sensory_range))
                           ELSE None
                       kid(i) ==
                           offspring(org[kids[i]],
                                     per_child_energy(org[kids[i]], count(kids[i])),
                                     offspring_genome(org[kids[i]], mate(kids[i]), draw[i]),
                                     draw[i].traits, draw[i].offset)
                   IN /\ \A i \in 1..n :
                            mate(kids[i]) # None \/ draw[i].from_a = [j \in 1..GenomeLen |-> TRUE]
                      /\ org' = [e \in alive \cup ids |->
                                    IF e \in R THEN parent_after(org[e], count(e))
                                    ELSE IF e \in alive THEN org[e]
                                    ELSE kid(e - nextEntity + 1)]
                      /\ alive' = alive \cup ids
                      /\ nextEntity' = nextEntity + n
    /\ zeroed' = zeroed \cup Zeroed(org, org')
    /\ UNCHANGED <<climate, dt, spatial, grid, tracker, probe>>

\* The entities handle_death's loop finds dead.
dead_entities(orgs) == {e \in DOMAIN orgs : is_dead(orgs[e].energy)}

mut_index_keeps_dead(index, dead) == index
\* `spatial_hash.organisms.remove(entity)` for every dead entity.
index_without(index, dead) == [e \in DOMAIN index \ dead |-> index[e]]

\* handle_death: the despawn commands are applied when the system ends.
handle_death ==
    /\ Runs("handle_death")
    /\ Ran("handle_death")
    /\ LET dead == dead_entities(org)
       IN /\ alive' = alive \ dead
          /\ org' = [e \in alive \ dead |-> org[e]]
          /\ spatial' = index_without(spatial, dead)
    /\ UNCHANGED <<climate, dt, nextEntity, grid, tracker, zeroed, probe>>

\* Iteration orders of the centroid map explored: ascending or descending id.
CentroidRanks == {[id \in 0..(2 * MaxEntity) |-> id], [id \in 0..(2 * MaxEntity) |-> -id]}

update_speciation ==
    /\ Runs("update_speciation")
    /\ Ran("update_speciation")
    /\ \E seq \in Orders(alive), rank \in CentroidRanks :
          LET c == tracker.update_counter + 1
              t0 == [tracker EXCEPT !.update_counter = c]
              t1 == IF c % 100 = 0 THEN update_centroids(t0, org) ELSE t0
              r == IF c % 500 = 0 THEN ReassignFrom(seq, 1, t1, org, rank)
                   ELSE [tracker |-> t1, orgs |-> org]
          IN tracker' = r.tracker /\ org' = r.orgs
    /\ UNCHANGED <<climate, dt, alive, spatial, nextEntity, grid, zeroed, probe>>

--------------------------------------------------------------------------
(* The frame machine *)

\* Cell::default() with the given densities (climate fields in 1/100).
CellWith(density) ==
    [resource_density |-> density, resource_pressure |-> ZeroResources,
     temperature |-> 50, humidity |-> 50, terrain |-> "Plains"]

\* The non-empty cells around the organisms.  A cell outside the domain reads as
\* empty, which is also what a position outside every chunk gives its readers.
StartGrid ==
    [c \in {<<0, 0>>, <<1, 0>>} |->
        IF c = <<0, 0>>
        THEN CellWith([ZeroResources EXCEPT !["Sunlight"] = 1000])
        ELSE CellWith([ZeroResources EXCEPT !["Detritus"] = 600])]

\* An organism as the frame boundary can find it.
Organism(type, position, traits, current, state, genome) ==
    [type |-> type, species |-> 0, pos |-> position, vel |-> <<0, 0>>,
     energy |-> with_energy(traits.max_energy, current), size |-> traits.size,
     age |-> 1, cooldown |-> 0, genome |-> genome, traits |-> traits,
     behavior |-> [BehaviorDefault EXCEPT !.state = state]]

--------------------------------------------------------------------------
(* The climate state (world/climate.rs) *)

\* ClimateState::update ignores its argument and counts with a local dt of
\* 1.0 per call.  Cooldowns and countdowns are kept in 1/10 of that unit, so
\* that a redrawn cooldown can fall between two whole numbers.  Season,
\* base temperature, base humidity and noise phase do not reach the events
\* and are left out; the centre and radius of an event are left out as well.
CLIMATE_DT == 10

EventKinds == {"heatwave", "cold rainstorm", "drought", "tropical storm"}

\* The duration spawn_event gives to each kind.
Duration(kind) ==
    CASE kind = "heatwave"       -> 1800
      [] kind = "cold rainstorm" -> 2000
      [] kind = "drought"        -> 2200
      [] kind = "tropical storm" -> 1600

\* ClimateState::default().
ClimateDefault == [time |-> 0, event_cooldown |-> 1200, events |-> <<>>]

\* fastrand::f32() of the cooldown redraw, in 1/1000.
CooldownDraws == {0, 1, 999}

\* fastrand::f32() * 300.0 + 120.0
redraw_cooldown(r) == (r * 3000) \div 1000 + 1200

StillActive(event) == event.time_remaining > 0

mut_retain_through_zero(events) ==
    SelectSeq(events, LAMBDA event : event.time_remaining >= 0)

\* self.events.retain(|event| event.time_remaining > 0.0)
retain_active(events) == SelectSeq(events, StillActive)

\* ClimateState::spawn_event; kind is the draw rng.u8(..4).
spawn_event(c, kind) ==
    [c EXCEPT !.events =
        Append(@, [kind |-> kind, time_remaining |-> Duration(kind)])]

\* ClimateState::update; roll is the outcome of fastrand::f32() < 0.02, r the
\* draw of the new cooldown.
update(c, roll, kind, r) ==
    LET decayed  == [i \in 1..Len(c.events) |->
                        [c.events[i] EXCEPT !.time_remaining = @ - CLIMATE_DT]]
        cooled   == [time           |-> c.time + 1,
                     event_cooldown |-> c.event_cooldown - CLIMATE_DT,
                     events         |-> retain_active(decayed)]
    IN  IF cooled.event_cooldown <= 0
        THEN [(IF roll THEN spawn_event(cooled, kind) ELSE cooled)
                 EXCEPT !.event_cooldown = redraw_cooldown(r)]
        ELSE cooled

NoProbe == [op |-> "none"]

Init ==
    /\ climate = ClimateDefault
    /\ pc = 1 /\ tick = 0 /\ dt = 0 /\ hist = <<>>
    /\ alive = {1, 2}
    /\ nextEntity = 3
    /\ \E t1 \in {"Producer", "Consumer"}, t2 \in {"Consumer"},
          c1 \in {5, 4100}, c2 \in {5000}, s1 \in {"Wandering", "Eating"} :
          org = [e \in {1, 2} |->
                    IF e = 1
                    THEN Organism(t1, <<0, 0>>, Sturdy, c1, s1, [i \in 1..GenomeLen |-> 50])
                    ELSE Organism(t2, <<1, 0>>, Slight, c2, "Wandering",
                                  [i \in 1..GenomeLen |-> 95])]
    /\ spatial = [e \in {1, 2} |-> org[e].pos]
    /\ grid = StartGrid
    /\ \E c \in {99, 499} :
          tracker = [TrackerDefault EXCEPT
                        !.update_counter = c,
                        !.species_centroids =
                            IF c >= 100 THEN [id \in {0} |-> [i \in 1..GenomeLen |-> 60]]
                            ELSE @]
    /\ zeroed = {}
    /\ probe = NoProbe

Next ==
    \/ update_spatial_hash
    \/ update_metabolism
    \/ update_behavior
    \/ update_movement
    \/ handle_eating
    \/ update_age
    \/ handle_reproduction
    \/ handle_death
    \/ update_speciation

Spec == Init /\ [][Next]_vars

--------------------------------------------------------------------------
(* Properties of the frame machine *)

\* The order of the subsystems as documented: rebuild spatial index, metabolism,
\* behavior decision, movement, eating, aging, reproduction, death, speciation
\* maintenance.
DocumentedOrder ==
    <<"update_spatial_hash", "update_metabolism", "update_behavior",
      "update_movement", "handle_eating", "update_age", "handle_reproduction",
      "handle_death", "update_speciation">>

LastRan == IF hist = <<>> THEN "none" ELSE hist[Len(hist)]

\* C1: in every tick the subsystems run exactly once each, in the documented
\* total order, and the first pass of the next tick starts only when the
\* speciation pass of the current tick has finished.  Every step runs the next
\* system of the documented order; a tick starts only from the boot state or
\* from a complete tick; the tick counter advances exactly when the ninth
\* system has run.
C1_FixedPassOrder ==
    [][/\ \E n \in 1..Len(DocumentedOrder) : hist' = SubSeq(DocumentedOrder, 1, n)
       /\ Len(hist') = 1 => hist \in {<<>>, DocumentedOrder}
       /\ Len(hist') > 1 => hist' = Append(hist, DocumentedOrder[Len(hist')])
       /\ tick' = IF hist' = DocumentedOrder THEN tick + 1 ELSE tick]_vars

\* A second tick is under way after a complete first one.
C1_Witness == tick = 1 /\ hist = SubSeq(DocumentedOrder, 1, 2)

C3_ZeroedIsRemovedSameTick ==
    LastRan \in {"handle_death", "update_speciation"} =>
        \A e \in zeroed : e \notin alive /\ e \notin DOMAIN spatial

\* C4: the death pass removes exactly the organisms whose energy is 0 when it
\* runs (they were alive before it), keeps every organism with energy > 0, and
\* no entity that has been removed is in the spatial index afterwards, in the
\* rest of the tick or in any later tick.
C4_DeathPassRemovesExactlyTheDead ==
    /\ [](\A e \in 1..(nextEntity - 1) : e \notin alive => e \notin DOMAIN spatial)
    /\ [][Runs("handle_death") =>
            /\ alive' = {e \in alive : org[e].energy.current > 0}
            /\ \A e \in alive : org[e].energy.current <= 0 =>
                   /\ e \notin alive'
                   /\ e \notin DOMAIN spatial'
                   /\ e \notin query_radius(spatial', org[e].pos, 3 * MAX_POS)]_vars

\* The death pass has just removed one organism and kept another, and a later
\* tick rebuilt the index.
C4_Witness ==
    /\ tick >= 1
    /\ LastRan = "update_spatial_hash"
    /\ alive # {}
    /\ \E e \in 1..(nextEntity - 1) : e \notin alive

--------------------------------------------------------------------------
(* The behavior procedures on their own: sensory collection, the decision,   *)
(* set_state and whole behavior passes over a small population               *)

\* A far-sighted profile: its sensory range exceeds every flee threshold.
Keen == [Slight EXCEPT !.sensory_range = 32]

\* Cells with food for every type around the origin.
ForageGrid ==
    [c \in {<<0, 0>>, <<1, 0>>} |->
        IF c = <<0, 0>>
        THEN CellWith([ZeroResources EXCEPT !["Sunlight"] = 1000])
        ELSE CellWith([ZeroResources EXCEPT !["Plant"] = 800, !["Detritus"] = 600])]

InitBehavior ==
    /\ climate = ClimateDefault
    /\ pc = 1 /\ tick = 0 /\ hist = <<>> /\ nextEntity = 4
    /\ dt \in DtSet
    /\ alive \in {{1, 2}, {1, 2, 3}}
    /\ \E ta \in Types, tb \in {"Producer", "Consumer"},
          ca \in {1000, 4500}, threat \in {0, 3000},
          pb \in {<<2, 0>>, <<15, 0>>, <<17, 0>>}, sb \in {0, 1},
          pp \in {<<0, 4>>, <<0, 20>>, <<0, 25>>} :
          \* only a Consumer ever records a predator, so only it carries a threat memory
          /\ threat > 0 => ta = "Consumer"
          /\LET a == [Organism(ta, <<0, 0>>, Keen, ca, "Wandering", [i \in 1..GenomeLen |-> 50])
                       EXCEPT !.behavior.threat_timer = threat,
                              !.behavior.recent_threat =
                                  IF threat > 0 THEN Some(<<9, 9>>) ELSE None,
                              !.behavior.hunger_memory = IF ca < 4500 THEN 2000 ELSE 0]
                b == [Organism(tb, pb, [Keen EXCEPT !.size = IF sb = 0 THEN 10 ELSE 29],
                               5000, "Wandering", [i \in 1..GenomeLen |-> 50])
                       EXCEPT !.species = sb]
                p == Organism("Consumer", pp, [Keen EXCEPT !.size = 29], 5000, "Wandering",
                              [i \in 1..GenomeLen |-> 50])
            IN org = [e \in alive |-> IF e = 1 THEN a ELSE IF e = 2 THEN b ELSE p]
    /\ spatial = [e \in alive |-> org[e].pos]
    /\ grid = ForageGrid
    /\ tracker = TrackerDefault
    /\ zeroed = {}
    /\ probe = NoProbe

\* A call of a pure function is recorded when no such record is pending; the
\* calls leave the population alone, so every pair of a population and a call
\* is still reached.
CanProbe == probe.op \in {"none", "update_behavior"}

\* One call of collect_sensory_data.
ProbeSense ==
    /\ CanProbe
    /\ \E e \in alive, perm \in Orders(DOMAIN spatial) :
          probe' = [op |-> "collect_sensory_data", entity |-> e,
                    sensory |-> collect_sensory_data(
                                    e, org[e].pos, org[e].traits.sensory_range,
                                    org[e].species, org[e].type, org[e].size,
                                    QueryVec(perm, org[e].pos, org[e].traits.sensory_range))]
    /\ UNCHANGED <<climate, pc, tick, dt, hist, alive, org, spatial, nextEntity, grid, tracker, zeroed>>

\* One call of decide_behavior_with_memory on what an organism senses.
ProbeDecide ==
    /\ CanProbe
    /\ \E e \in alive, perm \in Orders(DOMAIN spatial) :
          LET o == org[e]
              sensory == collect_sensory_data(
                             e, o.pos, o.traits.sensory_range, o.species, o.type, o.size,
                             QueryVec(perm, o.pos, o.traits.sensory_range))
          IN probe' = [op |-> "decide_behavior_with_memory", entity |-> e,
                       energy |-> o.energy,
                       traits |-> o.traits, sensory |-> sensory,
                       threat_timer |-> o.behavior.threat_timer,
                       decision |-> decide_behavior_with_memory(
                           o.energy, o.traits, o.type, sensory, o.behavior.state,
                           o.behavior.state_time, o.behavior.hunger_memory,
                           o.behavior.threat_timer, o.behavior.recent_threat,
                           o.behavior.migration_target # None)]
    /\ UNCHANGED <<climate, pc, tick, dt, hist, alive, org, spatial, nextEntity, grid, tracker, zeroed>>

\* One run of the update_behavior system.
PassBehavior ==
    /\ tick < MaxTick
    /\ tick' = tick + 1
    /\ \E perm \in Orders(DOMAIN spatial) :
          org' = [e \in alive |->
                     [org[e] EXCEPT !.behavior =
                          update_behavior_one(e, org[e],
                              QueryVec(perm, org[e].pos, org[e].traits.sensory_range))]]
    /\ probe' = [op |-> "update_behavior", before |-> org]
    /\ UNCHANGED <<climate, pc, dt, hist, alive, spatial, nextEntity, grid, tracker, zeroed>>

NextBehavior == ProbeSense \/ ProbeDecide \/ PassBehavior

SpecBehavior == InitBehavior /\ [][NextBehavior]_vars

--------------------------------------------------------------------------
(* Behavior::set_state on its own: one organism whose behavior record is     *)
(* drawn from the records the type admits                                    *)

BehaviorRecords ==
    {[BehaviorDefault EXCEPT !.state = st, !.state_time = time,
                             !.target_entity = te, !.target_position = tp,
                             !.migration_target = mt] :
        st \in States, time \in {0, 7}, te \in {None, Some(2)},
        tp \in {None, Some(<<1, 1>>)}, mt \in {None, Some(<<3, 3>>)}}

InitSetState ==
    /\ climate = ClimateDefault
    /\ pc = 1 /\ tick = 0 /\ hist = <<>> /\ nextEntity = 2 /\ dt = 0
    /\ alive = {1}
    /\ \E b \in BehaviorRecords :
          org = [e \in {1} |->
                    [Organism("Consumer", <<0, 0>>, Keen, 5000, "Wandering",
                              [i \in 1..GenomeLen |-> 50]) EXCEPT !.behavior = b]]
    /\ spatial = [e \in alive |-> org[e].pos]
    /\ grid = ForageGrid
    /\ tracker = TrackerDefault
    /\ zeroed = {}
    /\ probe = NoProbe

\* One call of Behavior::set_state on the organism's record.
CallSetState ==
    /\ tick < MaxTick
    /\ tick' = tick + 1
    /\ \E new_state \in States :
          /\ org' = [org EXCEPT ![1].behavior = set_state(@, new_state)]
          /\ probe' = [op |-> "set_state", before |-> org[1].behavior,
                       new_state |-> new_state]
    /\ UNCHANGED <<climate, pc, dt, hist, alive, spatial, nextEntity, grid, tracker, zeroed>>

NextSetState == CallSetState

SpecSetState == InitSetState /\ [][NextSetState]_vars

--------------------------------------------------------------------------
(* Properties of the behavior procedures *)

\* C5: whenever the nearest predator handed to the decision procedure is closer
\* than 8 + 14*boldness + 6*risk_tolerance (+5 when the threat timer is
\* positive), the decision is Fleeing with that predator as target entity and
\* its position as target position, whatever the energy, hunger, prey or mates.
C5_PredatorInsideThresholdFlees ==
    (probe.op = "decide_behavior_with_memory" /\ probe.sensory.nearest_predator # None) =>
        LET pred == Get(probe.sensory.nearest_predator)
            threshold == 800 + 14 * probe.traits.boldness + 6 * probe.traits.risk_tolerance
                             + (IF probe.threat_timer > 0 THEN 500 ELSE 0)
        IN 10000 * pred.d2 < threshold * threshold =>
               /\ probe.decision.state = "Fleeing"
               /\ probe.decision.target_entity = Some(pred.entity)
               /\ probe.decision.target_position = Some(pred.pos)

\* A reproduction-eligible organism with a mate within 15 units flees a predator
\* that is inside the threshold only thanks to the threat-memory bonus.
C5_Witness ==
    /\ probe.op = "decide_behavior_with_memory"
    /\ probe.sensory.nearest_predator # None
    /\ Get(probe.sensory.nearest_predator).d2 = 400
    /\ probe.threat_timer > 0
    /\ probe.energy.current * 100 >= probe.traits.reproduction_threshold * probe.energy.max
    /\ \E i \in DOMAIN probe.sensory.nearby_organisms :
          probe.sensory.nearby_organisms[i].is_mate
              /\ probe.sensory.nearby_organisms[i].d2 < 225
    /\ probe.decision.state = "Fleeing"

\* The documented predator-of rule: Consumers prey on every Producer and
\* Decomposer, and on Consumers they outsize by more than 1.5 (sizes in 1/10).
DocumentedPredatorOf(attacker, defender) ==
    /\ attacker.type = "Consumer"
    /\ \/ defender.type \in {"Producer", "Decomposer"}
       \/ defender.type = "Consumer" /\ 10 * attacker.size > 15 * defender.size

\* C6 (as documented): sensory collection flags a neighbor N as the observer
\* O's predator exactly when the documented rule makes N a predator of O, and
\* as O's prey exactly when the rule makes O a predator of N.
C6_FlagsFollowPredatorRule ==
    probe.op = "collect_sensory_data" =>
        \A i \in DOMAIN probe.sensory.nearby_organisms :
            LET n == probe.sensory.nearby_organisms[i]
            IN /\ n.is_predator = DocumentedPredatorOf(org[n.entity], org[probe.entity])
               /\ n.is_prey = DocumentedPredatorOf(org[probe.entity], org[n.entity])

\* C8 scenario: a and b are the only living organisms, of one species and type,
\* neither a predator of the other, closer than 15 and within half of each
\* sensory range, both reproduction-eligible, and the hunger pressure the pass
\* computes is not above the hunger barrier.
MatingScenario(before, a, b) ==
    /\ DOMAIN before = {a, b} /\ a # b
    /\ before[a].species = before[b].species
    /\ before[a].type = before[b].type
    /\ ~DocumentedPredatorOf(before[a], before[b])
    /\ ~DocumentedPredatorOf(before[b], before[a])
    /\ D2(before[a].pos, before[b].pos) < 225
    /\ \A x \in {a, b} :
          /\ 4 * D2(before[a].pos, before[b].pos)
                 <= before[x].traits.sensory_range * before[x].traits.sensory_range
          /\ before[x].energy.current * 100
                 >= before[x].traits.reproduction_threshold * before[x].energy.max
          /\ 7000 * (before[x].energy.max - before[x].energy.current)
                 + 3 * org[x].behavior.hunger_memory * before[x].energy.max
                 <= hunger_barrier(before[x].traits) * before[x].energy.max

BothMating(a, b) ==
    /\ org[a].behavior.state = "Mating" /\ org[a].behavior.target_entity = Some(b)
    /\ org[b].behavior.state = "Mating" /\ org[b].behavior.target_entity = Some(a)

C7_SetStateClearsTargets ==
    probe.op = "set_state" =>
        LET before == probe.before
            after == org[1].behavior
        IN IF before.state # probe.new_state
           THEN /\ after.target_entity = None
                /\ after.target_position = None
                /\ after.state_time = 0
                /\ probe.new_state # "Migrating" => after.migration_target = None
           ELSE after = before

\* A record with both targets, a migration target and time in state has been
\* switched to another state.
C7_Witness ==
    /\ probe.op = "set_state"
    /\ probe.before.state # probe.new_state
    /\ probe.before.target_entity # None
    /\ probe.before.target_position # None
    /\ probe.before.migration_target # None
    /\ probe.before.state_time > 0
    /\ org[1].behavior.state = probe.new_state
    /\ org[1].behavior.target_entity = None

--------------------------------------------------------------------------
(* Resource passes (world/resources.rs, world/mod.rs) *)

\* REGENERATION_RATES, per second, in 1/1000.
REGENERATION_RATES ==
    [Ocean    |-> [Plant |-> 0, Mineral |-> 100, Sunlight |-> 300, Water |-> 1000,
                   Detritus |-> 200, Prey |-> 500],
     Plains   |-> [Plant |-> 300, Mineral |-> 100, Sunlight |-> 800, Water |-> 400,
                   Detritus |-> 200, Prey |-> 300],
     Forest   |-> [Plant |-> 800, Mineral |-> 50, Sunlight |-> 500, Water |-> 600,
                   Detritus |-> 400, Prey |-> 200],
     Desert   |-> [Plant |-> 50, Mineral |-> 200, Sunlight |-> 1000, Water |-> 100,
                   Detritus |-> 50, Prey |-> 100],
     Tundra   |-> [Plant |-> 100, Mineral |-> 100, Sunlight |-> 600, Water |-> 300,
                   Detritus |-> 100, Prey |-> 100],
     Mountain |-> [Plant |-> 50, Mineral |-> 500, Sunlight |-> 700, Water |-> 200,
                   Detritus |-> 50, Prey |-> 50],
     Swamp    |-> [Plant |-> 400, Mineral |-> 50, Sunlight |-> 400, Water |-> 1000,
                   Detritus |-> 600, Prey |-> 300],
     Volcanic |-> [Plant |-> 0, Mineral |-> 800, Sunlight |-> 900, Water |-> 100,
                   Detritus |-> 100, Prey |-> 0]]

\* DECAY_RATES, per second, in 1/1000.
DECAY_RATES ==
    [Plant |-> 10, Mineral |-> 0, Sunlight |-> 100, Water |-> 20, Detritus |-> 50,
     Prey |-> 30]

\* temperature_regeneration_multiplier, in 1/100
temperature_regeneration_multiplier(temperature) ==
    100 - Min(Abs(temperature - 50) * 2, 100)

\* humidity_regeneration_multiplier, in 1/100
humidity_regeneration_multiplier(humidity, r) ==
    CASE r = "Plant" -> 50 + humidity \div 2
      [] r = "Water" -> humidity
      [] r = "Sunlight" -> 100
      [] r = "Mineral" -> 100
      [] r = "Detritus" -> 50 + humidity \div 2
      [] r = "Prey" -> 30 + (7 * humidity) \div 10

mut_regenerate_uncapped(cell, d) ==
    [cell EXCEPT !.resource_density = [r \in Resources |->
        @[r] + (((REGENERATION_RATES[cell.terrain][r]
                    * temperature_regeneration_multiplier(cell.temperature)) \div 100)
                  * humidity_regeneration_multiplier(cell.humidity, r) * d) \div 1000]]
\* regenerate_resources(cell, dt)
regenerate_resources(cell, d) ==
    [cell EXCEPT !.resource_density = [r \in Resources |->
        Min(@[r] + (((REGENERATION_RATES[cell.terrain][r]
                        * temperature_regeneration_multiplier(cell.temperature)) \div 100)
                      * humidity_regeneration_multiplier(cell.humidity, r) * d) \div 1000,
            1000)]]

\* decay_resources(cell, dt)
decay_resources(cell, d) ==
    [cell EXCEPT !.resource_density = [r \in Resources |->
        IF DECAY_RATES[r] > 0
        THEN Max((@[r] * (10000 - DECAY_RATES[r] * d)) \div 10000, 0)
        ELSE @[r]]]

\* quantize_resources(cell, threshold)
quantize_resources(cell, threshold) ==
    [cell EXCEPT !.resource_density = [r \in Resources |->
        IF @[r] < threshold THEN 0 ELSE @[r]]]

\* The cells of the chunk: ChunkSide wide, two high.
Cells == {<<x, y>> : x \in 0..(ChunkSide - 1), y \in 0..1}

\* The in-chunk neighbours the second pass of flow_resources sums over.
Neighbours(c) ==
    {n \in Cells : n # c /\ Abs(n[1] - c[1]) <= 1 /\ Abs(n[2] - c[2]) <= 1}

RECURSIVE SumOver(_, _, _)
SumOver(S, values, r) ==
    IF S = {} THEN 0
    ELSE LET n == CHOOSE x \in S : TRUE
         IN values[n].resource_density[r] + SumOver(S \ {n}, values, r)

mut_diffused_neighbor_sum(temp_resources, live, c, d) ==
    IF Neighbours(c) = {} THEN live[c]
    ELSE [live[c] EXCEPT !.resource_density = [r \in Resources |->
            LET old_value == temp_resources[c].resource_density[r]
                neighbor_sum == SumOver(Neighbours(c), temp_resources, r)
            IN Clamp(old_value + ((old_value - neighbor_sum) * d) \div 100, 0, 1000)]]
mut_diffused_in_place(temp_resources, live, c, d) ==
    IF Neighbours(c) = {} THEN live[c]
    ELSE [live[c] EXCEPT !.resource_density = [r \in Resources |->
            LET old_value == live[c].resource_density[r]
                neighbor_avg == SumOver(Neighbours(c), live, r) \div Cardinality(Neighbours(c))
            IN Clamp(old_value + ((neighbor_avg - old_value) * d) \div 100, 0, 1000)]]
\* The cell flow_resources writes at c: computed from the buffer
\* `temp_resources` copied in the first pass, written into the live chunk.
diffused(temp_resources, live, c, d) ==
    IF Neighbours(c) = {} THEN live[c]
    ELSE [live[c] EXCEPT !.resource_density = [r \in Resources |->
            LET old_value == temp_resources[c].resource_density[r]
                neighbor_avg == SumOver(Neighbours(c), temp_resources, r)
                                    \div Cardinality(Neighbours(c))
            IN Clamp(old_value + ((neighbor_avg - old_value) * d) \div 100, 0, 1000)]]

\* The second pass of flow_resources visiting the cells in `order`, from index i.
RECURSIVE FlowFrom(_, _, _, _, _)
FlowFrom(order, i, temp_resources, live, d) ==
    IF i > Len(order) THEN live
    ELSE FlowFrom(order, i + 1, temp_resources,
                  [live EXCEPT ![order[i]] = diffused(temp_resources, live, order[i], d)],
                  d)

\* The order of `for y in 0..CHUNK_SIZE { for x in 0..CHUNK_SIZE`.
RowMajor ==
    CHOOSE order \in Orders(Cells) :
        \A i, j \in DOMAIN order :
            i < j => \/ order[i][2] < order[j][2]
                     \/ order[i][2] = order[j][2] /\ order[i][1] < order[j][1]

\* The frame deltas explored by the resource passes (1/10 s): none, one second,
\* and twenty seconds (beyond 1/decay_rate and 1/diffusion_rate).
WorldDts == {0, 10, 200}

InitWorld ==
    /\ climate = ClimateDefault
    /\ pc = 1 /\ tick = 0 /\ hist = <<>> /\ nextEntity = 1 /\ dt = 0
    /\ alive = {} /\ org = <<>> /\ spatial = <<>>
    /\ \E terrain \in {"Forest", "Desert"}, humidity \in {0, 100},
          base \in {0, 500}, plant \in [Cells -> {0, 1000}] :
          grid = [c \in Cells |->
                     [CellWith([r \in Resources |-> IF r = "Plant" THEN plant[c] ELSE base])
                         EXCEPT !.terrain = terrain, !.humidity = humidity]]
    /\ tracker = TrackerDefault
    /\ zeroed = {}
    /\ probe = NoProbe

WorldStep(name, d) ==
    /\ tick < MaxSteps
    /\ tick' = tick + 1
    /\ dt' = d
    /\ probe' = [op |-> name, before |-> grid]
    /\ UNCHANGED <<climate, pc, hist, alive, org, spatial, nextEntity, tracker, zeroed>>

\* One call of regenerate_resources on one cell.
RegenerateCell ==
    \E c \in Cells, d \in WorldDts :
        /\ WorldStep("regenerate_resources", d)
        /\ grid' = [grid EXCEPT ![c] = regenerate_resources(@, d)]

\* One call of decay_resources on one cell.
DecayCell ==
    \E c \in Cells, d \in WorldDts :
        /\ WorldStep("decay_resources", d)
        /\ grid' = [grid EXCEPT ![c] = decay_resources(@, d)]

\* One call of quantize_resources on one cell.
QuantizeCell ==
    \E c \in Cells, d \in WorldDts :
        /\ WorldStep("quantize_resources", d)
        /\ grid' = [grid EXCEPT ![c] = quantize_resources(@, 1)]

\* The system regenerate_and_decay_resources; `dirty` and `active` stand for the
\* DirtyChunks resource.
regenerate_and_decay_resources ==
    \E d \in WorldDts, dirty \in BOOLEAN, active \in {{}, Cells} :
        /\ WorldStep("regenerate_and_decay_resources", d)
        /\ grid' = [c \in Cells |->
              LET has_resources == \E r \in Resources : grid[c].resource_density[r] > 1
              IN IF (dirty \/ c \in active) /\ (has_resources \/ c \in active)
                 THEN quantize_resources(
                          decay_resources(regenerate_resources(grid[c], d), d), 1)
                 ELSE grid[c]]

\* The system flow_resources over the chunk.
flow_resources ==
    \E d \in WorldDts :
        /\ WorldStep("flow_resources", d)
        /\ grid' = FlowFrom(RowMajor, 1, grid, grid, d)

NextWorld ==
    \/ RegenerateCell
    \/ DecayCell
    \/ QuantizeCell
    \/ regenerate_and_decay_resources
    \/ flow_resources

SpecWorld == InitWorld /\ [][NextWorld]_vars

\* C9: every resource density of every cell stays within [0,1] after any
\* sequence of regenerate, decay, quantize and diffuse steps, whatever their
\* order and frame deltas.
C9_DensitiesStayInUnitRange ==
    \A c \in DOMAIN grid : \A r \in Resources :
        0 <= grid[c].resource_density[r] /\ grid[c].resource_density[r] <= 1000

\* Two steps have run, the last with a twenty-second delta, and a full cell
\* sits beside an empty one.
C9_Witness ==
    /\ tick >= 2
    /\ dt = 200
    /\ probe.op \in {"decay_resources", "flow_resources"}
    /\ \E c \in DOMAIN grid : \E r \in Resources : grid[c].resource_density[r] = 1000
    /\ \E c \in DOMAIN grid : \E r \in Resources :
          probe.before[c].resource_density[r] > 0 /\ grid[c].resource_density[r] = 0

\* C10: the chunk a diffusion pass leaves is the one computed from the
\* densities all cells had before the pass, the same for every order in which
\* the cells are visited.
C10_DiffusionIsOrderIndependent ==
    probe.op = "flow_resources" =>
        \A order \in Orders(Cells) :
            grid = FlowFrom(order, 1, probe.before, probe.before, dt)

\* A diffusion pass with a positive delta changed an uneven chunk.
C10_Witness ==
    /\ probe.op = "flow_resources"
    /\ dt > 0
    /\ grid # probe.before
    /\ \E c \in Cells, n \in Cells :
          probe.before[c].resource_density["Plant"] # probe.before[n].resource_density["Plant"]


\* C11: in one diffusion pass a cell whose in-chunk neighbors all hold at least
\* as much of a resource as it does never loses any of it, and every cell that
\* has a neighbor ends at clamp(old + (neighbor_average - old) * 0.1 * dt, 0, 1),
\* old and the average being read from the densities before the pass.
C11_DiffusionFollowsNeighborAverage ==
    probe.op = "flow_resources" =>
        \A c \in Cells : \A r \in Resources :
            LET old == probe.before[c].resource_density[r]
                around == Neighbours(c)
                average == SumOver(around, probe.before, r) \div Cardinality(around)
            IN /\ around # {} =>
                      grid[c].resource_density[r]
                          = Clamp(old + ((average - old) * dt) \div 100, 0, 1000)
               /\ (\A n \in around : probe.before[n].resource_density[r] >= old) =>
                      grid[c].resource_density[r] >= old

\* A one-second pass took an empty cell whose neighbors were all full to 0.1.
C11_Witness ==
    /\ probe.op = "flow_resources"
    /\ dt = 10
    /\ \E c \in Cells :
          /\ Neighbours(c) # {}
          /\ probe.before[c].resource_density["Plant"] = 0
          /\ \A n \in Neighbours(c) : probe.before[n].resource_density["Plant"] = 1000
          /\ grid[c].resource_density["Plant"] = 100


--------------------------------------------------------------------------
(* World coordinates: chunk.rs *)

CHUNK_SIZE == 64

\* World coordinates are f32; the model writes them as integers in units of
\* 2^-20, fine enough to hold the spacing of f32 values below 64.
Unit == 1048576

\* Rounding of a non-negative sum to f32 (24-bit significand, nearest, ties to
\* even): exact below 16, spacing 2^-19 below 32, 2^-18 below 64, 2^-17 above.
RoundF32(v) ==
    LET step == IF v < 16 * Unit THEN 1
                ELSE IF v < 32 * Unit THEN 2
                ELSE IF v < 64 * Unit THEN 4 ELSE 8
        lo == (v \div step) * step
        rest == v - lo
    IN IF 2 * rest < step THEN lo
       ELSE IF 2 * rest > step THEN lo + step
       ELSE IF (lo \div step) % 2 = 0 THEN lo ELSE lo + step

\* The f32 `%` operator: exact, with the sign of the dividend.
FRem(a, b) == IF a >= 0 THEN a % b ELSE -((-a) % b)

\* f32::rem_euclid: `let r = self % rhs; if r < 0.0 { r + rhs.abs() } else { r }`
rem_euclid(self, rhs) ==
    LET r == FRem(self, rhs)
    IN IF r < 0 THEN RoundF32(r + Abs(rhs)) ELSE r

\* `(world_x / CHUNK_SIZE as f32).floor() as i32` (the division by 64 is exact)
world_to_chunk(world_x, world_y) ==
    <<world_x \div (CHUNK_SIZE * Unit), world_y \div (CHUNK_SIZE * Unit)>>

\* `(world_x.rem_euclid(CHUNK_SIZE as f32)) as usize`
world_to_local(world_x, world_y) ==
    <<rem_euclid(world_x, CHUNK_SIZE * Unit) \div Unit,
      rem_euclid(world_y, CHUNK_SIZE * Unit) \div Unit>>

\* Chunk::get_cell: the index of the cell in `cells`, or None.
Chunk_get_cell(x, y) ==
    IF x < CHUNK_SIZE /\ y < CHUNK_SIZE THEN Some(y * CHUNK_SIZE + x) ELSE None

\* The world coordinates explored, all of them f32 values: around the chunk
\* borders at -64, 0 and 64, and the smallest negative steps below 0.
WorldCoords ==
    {-128 * Unit, -64 * Unit - 8, -64 * Unit, -64 * Unit + 4, -Unit, -(Unit \div 2),
     -4, -2, -1, 0, 1, Unit \div 2, 63 * Unit + (Unit \div 2), 64 * Unit - 4,
     64 * Unit, 100 * Unit}

InitCoords ==
    /\ climate = ClimateDefault
    /\ pc = 1 /\ tick = 0 /\ hist = <<>> /\ nextEntity = 1 /\ dt = 0
    /\ alive = {} /\ org = <<>> /\ spatial = <<>> /\ grid = <<>>
    /\ tracker = TrackerDefault
    /\ zeroed = {}
    /\ \E x \in WorldCoords, y \in {-1, 0, 100 * Unit} :
          probe = [op |-> "position", world_x |-> x, world_y |-> y]

CallWorldToChunk ==
    /\ probe.op = "position"
    /\ probe' = [op |-> "world_to_chunk", world_x |-> probe.world_x,
                 world_y |-> probe.world_y,
                 chunk |-> world_to_chunk(probe.world_x, probe.world_y)]
    /\ UNCHANGED <<climate, pc, tick, dt, hist, alive, org, spatial, nextEntity, grid,
                   tracker, zeroed>>

CallWorldToLocal ==
    /\ probe.op = "position"
    /\ probe' = [op |-> "world_to_local", world_x |-> probe.world_x,
                 world_y |-> probe.world_y,
                 local |-> world_to_local(probe.world_x, probe.world_y)]
    /\ UNCHANGED <<climate, pc, tick, dt, hist, alive, org, spatial, nextEntity, grid,
                   tracker, zeroed>>

\* Chunk::get_cell on the local pair world_to_local returned.
CallChunkGetCell ==
    /\ probe.op = "world_to_local"
    /\ probe' = [op |-> "get_cell", world_x |-> probe.world_x,
                 world_y |-> probe.world_y, local |-> probe.local,
                 cell |-> Chunk_get_cell(probe.local[1], probe.local[2])]
    /\ UNCHANGED <<climate, pc, tick, dt, hist, alive, org, spatial, nextEntity, grid,
                   tracker, zeroed>>

NextCoords == CallWorldToChunk \/ CallWorldToLocal \/ CallChunkGetCell

SpecCoords == InitCoords /\ [][NextCoords]_vars

\* C12 (as documented): on each axis world_to_chunk gives c = floor(w / 64),
\* world_to_local gives l with 0 <= l <= 63 and c * 64 + l = floor(w), negative
\* coordinates included, and Chunk::get_cell on the local pair is never None.
C12_TranslationIsFloorAndRemainder ==
    LET w == <<probe.world_x, probe.world_y>>
    IN /\ probe.op = "world_to_chunk" =>
              \A i \in 1..2 : probe.chunk[i] = w[i] \div (64 * Unit)
       /\ probe.op = "world_to_local" =>
              \A i \in 1..2 :
                  /\ 0 <= probe.local[i] /\ probe.local[i] <= 63
                  /\ (w[i] \div (64 * Unit)) * 64 + probe.local[i] = w[i] \div Unit
       /\ probe.op = "get_cell" => probe.cell # None


--------------------------------------------------------------------------
(* Genome constructors over generations: genetics.rs *)

MaxGenerations == 2

\* Gene vectors handed to Genome::new: empty, of the genome size, and one gene
\* too long, with values below 0 and above 1.
RawGenes ==
    {<<>>} \cup [1..GenomeLen -> {-20, 5, 130}] \cup {[i \in 1..(GenomeLen + 1) |-> 130]}

\* Values of rng.f32() explored by Genome::random (1/100; below 1).
RandomGenes == [1..GenomeLen -> {0, 99}]

\* Per-gene draws of one clone_with_mutation or crossover call: no mutation, or
\* a mutation at either end of (rng.f32() - 0.5) * 0.2.
GeneDraws == [1..GenomeLen -> {-10, 0, 10}]

GenomeStep(name, genome, a, b, mutations) ==
    /\ probe' = [op |-> name, genome |-> genome, parent_a |-> a, parent_b |-> b,
                 mutations |-> mutations]
    /\ UNCHANGED <<climate, pc, dt, hist, alive, org, spatial, nextEntity, grid, tracker, zeroed>>

InitGenome ==
    /\ climate = ClimateDefault
    /\ pc = 1 /\ tick = 0 /\ hist = <<>> /\ nextEntity = 1 /\ dt = 0
    /\ alive = {} /\ org = <<>> /\ spatial = <<>> /\ grid = <<>>
    /\ tracker = TrackerDefault
    /\ zeroed = {}
    /\ probe = NoProbe

CallGenomeNew ==
    /\ probe.op = "none" /\ tick' = tick
    /\ \E genes \in RawGenes :
          GenomeStep("new", Genome_new(genes), <<>>, <<>>, <<>>)

CallGenomeRandom ==
    /\ probe.op = "none" /\ tick' = tick
    /\ \E genes \in RandomGenes : GenomeStep("random", genes, <<>>, <<>>, <<>>)

\* One more generation by asexual reproduction of the current genome.
CallCloneWithMutation ==
    /\ probe.op # "none" /\ tick < MaxGenerations /\ tick' = tick + 1
    /\ \E mutations \in GeneDraws :
          GenomeStep("clone_with_mutation", clone_with_mutation(probe.genome, mutations),
                     probe.genome, <<>>, mutations)

\* One more generation by crossover of the current genome with a mate that is
\* itself a product of Genome::new or Genome::random.
CallCrossover ==
    /\ probe.op # "none" /\ tick < MaxGenerations /\ tick' = tick + 1
    /\ \E mate \in RandomGenes \cup {Genome_new(<<>>)}, from_a \in [1..GenomeLen -> BOOLEAN],
          mutations \in GeneDraws :
          GenomeStep("crossover", crossover(probe.genome, mate, from_a, mutations),
                     probe.genome, mate, mutations)

NextGenome ==
    CallGenomeNew \/ CallGenomeRandom \/ CallCloneWithMutation \/ CallCrossover

SpecGenome == InitGenome /\ [][NextGenome]_vars

\* C13: every genome produced by Genome::new, random, clone_with_mutation or
\* crossover, over any number of generations, has exactly the genome size of
\* genes, each in [0,1], and a gene a call mutated is within 0.1 of the gene it
\* inherited (from the parent, or from one of the two parents).
C13_GenomesStayWellFormed ==
    probe.op \in {"new", "random", "clone_with_mutation", "crossover"} =>
        /\ DOMAIN probe.genome = 1..GenomeLen
        /\ \A i \in 1..GenomeLen : 0 <= probe.genome[i] /\ probe.genome[i] <= 100
        /\ probe.op = "clone_with_mutation" =>
               \A i \in 1..GenomeLen : Abs(probe.genome[i] - probe.parent_a[i]) <= 10
        /\ probe.op = "crossover" =>
               \A i \in 1..GenomeLen :
                   \/ Abs(probe.genome[i] - probe.parent_a[i]) <= 10
                   \/ Abs(probe.genome[i] - probe.parent_b[i]) <= 10

\* A second-generation genome one of whose genes was pushed below 0 by its
\* mutation and clamped.
C13_Witness ==
    /\ probe.op \in {"clone_with_mutation", "crossover"}
    /\ tick = 2
    /\ \E i \in 1..GenomeLen :
          /\ probe.mutations[i] = -10
          /\ probe.parent_a[i] < 10
          /\ probe.genome[i] = 0


--------------------------------------------------------------------------
(* Reproduction cooldown over the ticks of the frame machine *)

\* The value handle_reproduction resets a parent's cooldown to.
ResetValue(o) == Max(o.traits.reproduction_cooldown, 1)

\* Organism e stands right after the reproduction pass of tick t with its
\* cooldown freshly set.
JustBred(e, t) ==
    /\ tick = t /\ LastRan = "handle_reproduction"
    /\ e \in alive /\ org[e].cooldown = ResetValue(org[e])

--------------------------------------------------------------------------
(* One reproduction pass over a lone parent, for every clutch size *)

\* Values of the clutch_size trait (1/10, inside its range 1.0 .. 6.0) and of
\* offspring_energy_share (1/100, inside 0.05 .. 0.45).
ClutchTraits == {11, 15, 25, 34, 35, 59}
ShareTraits == {6, 44}

\* The frame stands before its reproduction pass, with one organism whose
\* cooldown has run out.
InitClutch ==
    /\ climate = ClimateDefault
    /\ pc = 7 /\ tick = 0 /\ dt = 0 /\ hist = SubSeq(PassOrder, 1, 6)
    /\ alive = {1} /\ nextEntity = 2
    /\ \E type \in Types, clutch \in ClutchTraits, share \in ShareTraits,
          current \in {1000, 2000, 4100} :
          org = [e \in {1} |->
                    Organism(type, <<0, 0>>,
                             [Sturdy EXCEPT !.clutch_size = clutch,
                                            !.offspring_energy_share = share],
                             current, "Wandering", [i \in 1..GenomeLen |-> 50])]
    /\ spatial = [e \in {1} |-> <<0, 0>>]
    /\ grid = StartGrid
    /\ tracker = TrackerDefault
    /\ zeroed = {}
    /\ probe = NoProbe

\* handle_reproduction, the offspring of one event sharing their rng draws.
ReproductionPass ==
    /\ Runs("handle_reproduction")
    /\ Ran("handle_reproduction")
    /\ \E R \in SUBSET {e \in alive : CanReproduce(org[e])} :
          LET kids == ParentsOfKids(R)
              n == Len(kids)
              ids == nextEntity..(nextEntity + n - 1)
              count(p) == clutch_count(org[p].traits)
          IN \E perm \in Orders(DOMAIN spatial), sexual \in SUBSET R, draw \in Draws :
                LET mate(p) ==
                        IF p \in sexual
                        THEN find_mate(p, org[p], QueryVec(perm, org[p].pos,
                                                           org[p].traits.sensory_range))
                        ELSE None
                    kid(i) ==
                        offspring(org[kids[i]],
                                  per_child_energy(org[kids[i]], count(kids[i])),
                                  offspring_genome(org[kids[i]], mate(kids[i]), draw),
                                  draw.traits, draw.offset)
                IN /\ org' = [e \in alive \cup ids |->
                                 IF e \in R THEN parent_after(org[e], count(e))
                                 ELSE IF e \in alive THEN org[e]
                                 ELSE kid(e - nextEntity + 1)]
                   /\ alive' = alive \cup ids
                   /\ nextEntity' = nextEntity + n
                   /\ probe' = [op |-> "handle_reproduction", before |-> org, parents |-> R]
    /\ zeroed' = zeroed \cup Zeroed(org, org')
    /\ UNCHANGED <<climate, dt, spatial, grid, tracker>>

NextClutch == ReproductionPass

SpecClutch == InitClutch /\ [][NextClutch]_vars

\* C15: in a reproduction event with parent energy E, the clutch size n is
\* round(clutch_size) clamped to 1..6, exactly n offspring are spawned, the
\* parent keeps E - n * min(offspring_energy_share * E, E / n), never less than
\* 0, and every offspring starts with
\* max(0.15 * its max energy, min(its max energy, 0.9 * the per-child share)).
C15_ClutchAndEnergyAccounting ==
    probe.op = "handle_reproduction" =>
        \A p \in probe.parents :
            LET o == probe.before[p]
                E == o.energy.current
                n == Cardinality(alive \ DOMAIN probe.before)
                share == Min((E * o.traits.offspring_energy_share) \div 100, E \div n)
            IN /\ n \in 1..6
               /\ 10 * n - 5 <= o.traits.clutch_size /\ o.traits.clutch_size < 10 * n + 5
               /\ org[p].energy.current = E - n * share
               /\ org[p].energy.current >= 0
               /\ \A k \in alive \ DOMAIN probe.before :
                      org[k].energy.current
                          = Max((15 * org[k].energy.max) \div 100,
                                Min(org[k].energy.max, (9 * share) \div 10))

\* A clutch of six, each offspring taking E / 6, left the parent with nothing,
\* and every offspring starts at the floor of 15% of its max energy.
C15_Witness ==
    /\ probe.op = "handle_reproduction"
    /\ probe.parents = {1}
    /\ Cardinality(alive) = 7
    /\ org[1].energy.current < 6
    /\ \A k \in alive \ {1} : org[k].energy.current * 100 = 15 * org[k].energy.max


--------------------------------------------------------------------------
(* Properties of the species tracker *)

\* The gene-by-gene arithmetic mean of the genomes of the members of species
\* `id` among `orgs`, clamped to [0,1].
GenomeMean(orgs, id) ==
    LET members == {e \in DOMAIN orgs : orgs[e].species = id}
        RECURSIVE Total(_, _)
        Total(S, i) == IF S = {} THEN 0
                       ELSE LET e == CHOOSE x \in S : TRUE
                            IN orgs[e].genome[i] + Total(S \ {e}, i)
    IN [i \in 1..GenomeLen |-> Clamp(Total(members, i) \div Cardinality(members), 0, 100)]

\* C16 (as documented): when the speciation pass brings its counter to a
\* multiple of 100, the centroid stored for every species id carried by a living
\* organism is the arithmetic mean of the genomes of the living organisms that
\* carry it.  (Stated for the passes that do not also reassign species, so that
\* the centroids read are those the recomputation wrote.)
C16_CentroidIsMeanOfMembers ==
    [][(/\ Runs("update_speciation")
        /\ (tracker.update_counter + 1) % 100 = 0
        /\ (tracker.update_counter + 1) % 500 # 0) =>
           \A e \in alive :
               /\ org[e].species \in DOMAIN tracker'.species_centroids
               /\ tracker'.species_centroids[org[e].species]
                      = GenomeMean(org, org[e].species)]_vars


--------------------------------------------------------------------------
(* One speciation pass and the calls of its reassignment loop *)

\* The frame stands before its speciation pass.  Every organism still carries
\* the species id 0 it was spawned with and no species has been created; the
\* counter stands before a multiple of 100 or of 500, and in the second case
\* the recomputation of tick 400 has left a centroid for id 0.
InitSpeciation ==
    /\ climate = ClimateDefault
    /\ pc = 9 /\ tick = 0 /\ dt = 0 /\ hist = SubSeq(PassOrder, 1, 8)
    /\ alive = {1, 2, 3} /\ nextEntity = 4
    /\ \E g1 \in {40, 45}, g2 \in {60, 45}, g3 \in {52, 90}, c1 \in {2000, 4100},
          t1 \in {"Producer", "Consumer"} :
          org = [e \in {1, 2, 3} |->
                    Organism(IF e = 1 THEN t1 ELSE "Consumer", <<e, 0>>, Sturdy,
                             IF e = 1 THEN c1 ELSE 4100, "Wandering",
                             [i \in 1..GenomeLen |->
                                 IF e = 1 THEN g1 ELSE IF e = 2 THEN g2 ELSE g3])]
    /\ spatial = [e \in {1, 2, 3} |-> <<e, 0>>]
    /\ grid = StartGrid
    /\ \E c \in {99, 499} :
          tracker = [TrackerDefault EXCEPT
                        !.update_counter = c,
                        !.species_centroids =
                            IF c >= 100 THEN [id \in {0} |-> [i \in 1..GenomeLen |-> 60]]
                            ELSE @]
    /\ zeroed = {}
    /\ probe = NoProbe

\* The k-th call of find_or_create_species the reassignment loop of the coming
\* pass makes, when the query yields the organisms in the order `seq` and the
\* centroid map iterates by `rank`.
ProbeFindOrCreate ==
    /\ Runs("update_speciation")
    /\ (tracker.update_counter + 1) % 500 = 0
    /\ \E seq \in Orders(alive), rank \in CentroidRanks, k \in 1..Cardinality(alive) :
          LET t0 == [tracker EXCEPT !.update_counter = @ + 1]
              t1 == update_centroids(t0, org)
              sofar == ReassignFrom(SubSeq(seq, 1, k - 1), 1, t1, org, rank)
              r == find_or_create_species(sofar.tracker, org[seq[k]].genome, rank)
          IN probe' = [op |-> "find_or_create_species", entity |-> seq[k],
                       genome |-> org[seq[k]].genome, before |-> sofar.tracker,
                       species |-> [e \in alive |-> sofar.orgs[e].species],
                       id |-> r.id, after |-> r.tracker]
    /\ UNCHANGED <<climate, pc, tick, dt, hist, alive, org, spatial, nextEntity, grid, tracker,
                   zeroed>>

NextSpeciation == ProbeFindOrCreate \/ update_speciation

SpecSpeciation == InitSpeciation /\ [][NextSpeciation]_vars

\* The squared genetic distance of two genomes, times the genome size.
DistSq(a, b) ==
    LET RECURSIVE Sum(_)
        Sum(i) == IF i = 0 THEN 0 ELSE (a[i] - b[i]) * (a[i] - b[i]) + Sum(i - 1)
    IN Sum(Min(Len(a), Len(b)))

\* The centroids of tracker t within its threshold of the genome.
WithinThreshold(t, genome) ==
    {id \in DOMAIN t.species_centroids :
        DistSq(genome, t.species_centroids[id]) < t.threshold * t.threshold * GenomeLen}

\* C17 (as documented): an organism whose genome is within the threshold of at
\* least one centroid is assigned the id of the centroid nearest to its genome,
\* whatever the order in which the centroids are stored or visited.
C17_ReassignedToNearestCentroid ==
    (probe.op = "find_or_create_species"
        /\ WithinThreshold(probe.before, probe.genome) # {}) =>
        /\ probe.id \in DOMAIN probe.before.species_centroids
        /\ \A other \in DOMAIN probe.before.species_centroids :
               DistSq(probe.genome, probe.before.species_centroids[probe.id])
                   <= DistSq(probe.genome, probe.before.species_centroids[other])

\* C18 (as documented): when no centroid is within the threshold, the species
\* created gets an id that no centroid and no other living organism holds, its
\* centroid is the organism's genome, and every existing centroid is unchanged.
C18_NewSpeciesGetsFreshId ==
    (probe.op = "find_or_create_species"
        /\ WithinThreshold(probe.before, probe.genome) = {}) =>
        /\ probe.id \notin DOMAIN probe.before.species_centroids
        /\ \A e \in DOMAIN probe.species : e # probe.entity => probe.species[e] # probe.id
        /\ probe.after.species_centroids[probe.id] = probe.genome
        /\ \A id \in DOMAIN probe.before.species_centroids :
               probe.after.species_centroids[id] = probe.before.species_centroids[id]


--------------------------------------------------------------------------
(* The decision of a lone organism over the resources around it *)

\* What a cell of the foraging scenarios holds: nothing, a trace of one
\* resource (above the 0.1 a reading needs, below the 0.2 food needs) or a
\* rich stock of it.
CellStocks ==
    {ZeroResources} \cup
    {[ZeroResources EXCEPT ![r] = v] :
        r \in {"Plant", "Water", "Detritus", "Sunlight"}, v \in {150, 500}}

\* One organism of any type on the cell <<0, 0>>, hungry or fed, wandering or
\* eating, with or without a migration target; its cell and the cell next to
\* it, both within its sensory range, hold any of the stocks.
InitForage ==
    /\ climate = ClimateDefault
    /\ pc = 1 /\ tick = 0 /\ hist = <<>> /\ nextEntity = 2
    /\ dt \in DtSet
    /\ alive = {1}
    /\ \E type \in Types, current \in {1000, 4500}, state \in {"Wandering", "Eating"},
          drive \in {30, 60}, mt \in {None, Some(<<30, 0>>)} :
          org = [e \in {1} |->
                    [Organism(type, <<0, 0>>, [Keen EXCEPT !.exploration_drive = drive],
                              current, state, [i \in 1..GenomeLen |-> 50])
                        EXCEPT !.behavior.migration_target = mt]]
    /\ spatial = [e \in alive |-> org[e].pos]
    /\ \E own \in CellStocks, next \in CellStocks :
          grid = [c \in {<<0, 0>>, <<1, 0>>} |->
                     CellWith(IF c = <<0, 0>> THEN own ELSE next)]
    /\ tracker = TrackerDefault
    /\ zeroed = {}
    /\ probe = NoProbe

NextForage == ProbeDecide \/ PassBehavior

SpecForage == InitForage /\ [][NextForage]_vars

\* The cells other than p within the sensory range r of position p.
CellsAway(p, r) == {c \in DOMAIN grid : c # p /\ D2(c, p) <= r * r}

\* C19 (as documented): for every organism type, when no flee rule fires, the
\* hunger pressure exceeds the hunger barrier, no cell other than the
\* organism's own holds a preferred resource above 0.2 within sensory range
\* and the organism's own cell holds a preferred resource above 0.2, the
\* decision is Eating.
C19_HungryOnFoodEatsInPlace ==
    probe.op = "decide_behavior_with_memory" =>
        LET o == org[probe.entity]
            own == grid[o.pos].resource_density
        IN (/\ o.pos \in DOMAIN grid
            /\ probe.decision.state # "Fleeing"
            /\ hunger_exceeds(o.energy, o.behavior.hunger_memory, o.traits)
            /\ \A c \in CellsAway(o.pos, o.traits.sensory_range) :
                   \A r \in PreferredResources(o.type) :
                       grid[c].resource_density[r] <= 200
            /\ \E r \in PreferredResources(o.type) \ {"Mineral"} : own[r] > 200)
           => probe.decision.state = "Eating"

\* C20 (as documented): when none of the flee, feed, hunt, mate and rest rules
\* fires, the organism has no migration target, its exploration_drive exceeds
\* 0.4 and no resource reading is visible within its sensory range, the
\* decision the behavior pass adopts is Migrating with a migration target.
C20_ExplorerWithoutResourcesMigrates ==
    probe.op = "decide_behavior_with_memory" =>
        LET o == org[probe.entity]
        IN (/\ probe.decision.state
                   \notin {"Fleeing", "Chasing", "Eating", "Mating", "Resting"}
            /\ o.behavior.migration_target = None
            /\ o.traits.exploration_drive > 40
            /\ probe.sensory.nearby_resources = {})
           => /\ probe.decision.state = "Migrating"
              /\ probe.decision.migration_target # None


--------------------------------------------------------------------------
(* The eating pass on its own *)

\* A cell stocked with every resource whose accumulators all stand at `p`.
StockedCell(p) ==
    [CellWith([r \in Resources |->
                  CASE r = "Sunlight" -> 1000 [] r = "Water" -> 300
                    [] r = "Plant" -> 800 [] r = "Detritus" -> 600
                    [] r = "Prey" -> 200 [] OTHER -> 50])
        EXCEPT !.resource_pressure = [r \in Resources |-> p]]

\* The frame stands before its eating pass.  Two organisms, eating or not, on
\* one cell or on two; the accumulators of the cells are fresh or, after a long
\* history of feeding, close to their cap.
InitEating ==
    /\ climate = ClimateDefault
    /\ pc = 5 /\ tick = 0 /\ hist = SubSeq(PassOrder, 1, 4)
    /\ dt \in {0, 1, 10}
    /\ alive = {1, 2} /\ nextEntity = 3
    /\ \E ta \in Types, tb \in {"Producer", "Consumer"},
          sa \in {"Eating", "Wandering"}, sb \in {"Eating", "Chasing"},
          ca \in {1000, 4090}, pb \in {<<0, 0>>, <<1, 0>>, <<5, 5>>} :
          org = [e \in {1, 2} |->
                    IF e = 1
                    THEN Organism(ta, <<0, 0>>, Sturdy, ca, sa, [i \in 1..GenomeLen |-> 50])
                    ELSE Organism(tb, pb, Sturdy, 2000, sb, [i \in 1..GenomeLen |-> 50])]
    /\ spatial = [e \in alive |-> org[e].pos]
    /\ \E p \in {0, 9900} :
          grid = [c \in {<<0, 0>>, <<1, 0>>} |-> StockedCell(p)]
    /\ tracker = TrackerDefault
    /\ zeroed = {}
    /\ probe = NoProbe

\* handle_eating, leaving a record of the organisms and cells it found.
EatingPass ==
    /\ Runs("handle_eating")
    /\ Ran("handle_eating")
    /\ \E seq \in Orders(alive) :
          LET r == EatFrom(seq, 1, org, grid)
          IN org' = r.orgs /\ grid' = r.grid
    /\ probe' = [op |-> "handle_eating", before |-> org, cells |-> grid]
    /\ UNCHANGED <<climate, dt, alive, spatial, nextEntity, tracker, zeroed>>

NextEating == EatingPass

SpecEating == InitEating /\ [][NextEating]_vars

\* The organisms of `orgs` in state Eating that stand on cell c.
EatersAt(orgs, c) ==
    {e \in DOMAIN orgs : orgs[e].behavior.state = "Eating" /\ orgs[e].pos = c}

\* The resource set the specification gives each organism type.
DocumentedDiet(organism_type) ==
    CASE organism_type = "Producer" -> {"Sunlight", "Water", "Mineral"}
      [] organism_type = "Consumer" -> {"Plant", "Prey"}
      [] organism_type = "Decomposer" -> {"Detritus"}

\* What C21 says of the eating pass apart from the accumulators: only Eating
\* organisms change, and only in energy; only cells under an Eating organism
\* change, and only by a decrease, never below 0, of resources of the eaters'
\* sets.
EatingFrame ==
    /\ \A e \in DOMAIN probe.before :
           /\ probe.before[e].behavior.state # "Eating" => org[e] = probe.before[e]
           /\ org[e] = [probe.before[e] EXCEPT !.energy.current = org[e].energy.current]
    /\ \A c \in DOMAIN probe.cells :
           LET old == probe.cells[c]
               diet == UNION {DocumentedDiet(probe.before[e].type) :
                                 e \in EatersAt(probe.before, c)}
           IN /\ EatersAt(probe.before, c) = {} => grid[c] = old
              /\ grid[c] = [old EXCEPT !.resource_density = grid[c].resource_density,
                                       !.resource_pressure = grid[c].resource_pressure]
              /\ \A r \in Resources :
                     /\ grid[c].resource_density[r] >= 0
                     /\ grid[c].resource_density[r] <= old.resource_density[r]
                     /\ r \notin diet =>
                            /\ grid[c].resource_density[r] = old.resource_density[r]
                            /\ grid[c].resource_pressure[r] = old.resource_pressure[r]

\* C21 (as documented): the eating pass changes energy and cell resources only
\* for organisms in state Eating, only resources of the eater's set decrease,
\* none goes below 0, and each amount removed from a resource is added to that
\* resource's pressure accumulator of the same cell.
C21_EatingMovesResourceIntoPressure ==
    probe.op = "handle_eating" =>
        /\ EatingFrame
        /\ \A c \in DOMAIN probe.cells : \A r \in Resources :
               grid[c].resource_pressure[r] =
                   probe.cells[c].resource_pressure[r]
                       + (probe.cells[c].resource_density[r] - grid[c].resource_density[r])

\* C21 (corrected): as above, except that the accumulator takes the amount
\* removed only up to its cap of 10; what would exceed the cap is dropped.
C21_EatingMovesResourceIntoCappedPressure ==
    probe.op = "handle_eating" =>
        /\ EatingFrame
        /\ \A c \in DOMAIN probe.cells : \A r \in Resources :
               grid[c].resource_pressure[r] =
                   Min(probe.cells[c].resource_pressure[r]
                           + (probe.cells[c].resource_density[r]
                                  - grid[c].resource_density[r]),
                       10000)

\* Two organisms ate from one cell whose accumulators stood close to the cap:
\* a resource lost more than its accumulator could take.
C21_Witness ==
    /\ probe.op = "handle_eating"
    /\ \E c \in DOMAIN probe.cells :
          /\ Cardinality(EatersAt(probe.before, c)) = 2
          /\ \E r \in Resources :
                /\ grid[c].resource_density[r] < probe.cells[c].resource_density[r]
                /\ grid[c].resource_pressure[r] = 10000
                /\ probe.cells[c].resource_pressure[r]
                       + (probe.cells[c].resource_density[r] - grid[c].resource_density[r])
                       > 10000
    /\ \E e \in DOMAIN probe.before : org[e].energy.current > probe.before[e].energy.current


--------------------------------------------------------------------------
(* The close of a tick for a parent near the world boundary *)

\* The frame stands before its reproduction pass, after the movement pass has
\* clamped the one organism to the boundary box; the organism stands well
\* inside the box, close to its edge or on it.
InitBorder ==
    /\ climate = ClimateDefault
    /\ pc = 7 /\ tick = 0 /\ dt = 0 /\ hist = SubSeq(PassOrder, 1, 6)
    /\ alive = {1} /\ nextEntity = 2
    /\ \E type \in Types, clutch \in {11, 25}, current \in {1000, 4100},
          x \in {0, 198, -MAX_POS}, y \in {0, MAX_POS} :
          org = [e \in {1} |->
                    Organism(type, <<x, y>>, [Sturdy EXCEPT !.clutch_size = clutch],
                             current, "Wandering", [i \in 1..GenomeLen |-> 50])]
    /\ spatial = [e \in {1} |-> org[e].pos]
    /\ grid = StartGrid
    /\ tracker = TrackerDefault
    /\ zeroed = {}
    /\ probe = NoProbe

\* The passes from the reproduction pass to the end of the tick.
NextBorder == ReproductionPass \/ handle_death \/ update_speciation

SpecBorder == InitBorder /\ [][NextBorder]_vars

\* C22 (as documented): at the end of every tick every living organism, newly
\* spawned offspring included, has a position inside [-200,200] x [-200,200].
C22_EveryoneInsideBoundaryBox ==
    (pc = 1 /\ tick >= 1) =>
        \A e \in alive :
            /\ -MAX_POS <= org[e].pos[1] /\ org[e].pos[1] <= MAX_POS
            /\ -MAX_POS <= org[e].pos[2] /\ org[e].pos[2] <= MAX_POS


--------------------------------------------------------------------------
(* The hunger and threat memories over behavior passes *)

\* Organism 1, a small Consumer, with or without the large Consumer 2 that it
\* records as a predator: inside its flee threshold, inside the threshold only
\* with the memory bonus, merely in sensory range, or out of range.  Its
\* memories start empty, part filled or close to their caps, and it remembers
\* a threat position exactly when its threat timer is positive.
InitMemory ==
    /\ climate = ClimateDefault
    /\ pc = 1 /\ tick = 0 /\ hist = <<>> /\ nextEntity = 3
    /\ dt \in {0, 1, 10, 50}
    /\ alive \in {{1}, {1, 2}}
    /\ \E current \in {1000, 5000}, state \in {"Wandering", "Fleeing"},
          threat \in {0, 500, 9500}, hunger \in {0, 1900},
          decay \in {21, 249}, rate \in {51, 299},
          pp \in {<<0, 4>>, <<0, 20>>, <<0, 25>>, <<0, 40>>} :
          LET a == [Organism("Consumer", <<0, 0>>,
                             [Keen EXCEPT !.threat_decay_rate = decay,
                                          !.hunger_memory_rate = rate],
                             current, state, [i \in 1..GenomeLen |-> 50])
                       EXCEPT !.behavior.threat_timer = threat,
                              !.behavior.recent_threat =
                                  IF threat > 0 THEN Some(<<9, 9>>) ELSE None,
                              !.behavior.hunger_memory = hunger]
              p == Organism("Consumer", pp, [Keen EXCEPT !.size = 29], 5000, "Wandering",
                            [i \in 1..GenomeLen |-> 50])
          IN org = [e \in alive |-> IF e = 1 THEN a ELSE p]
    /\ spatial = [e \in alive |-> org[e].pos]
    /\ grid = [c \in {<<0, 0>>} |-> CellWith(ZeroResources)]
    /\ tracker = TrackerDefault
    /\ zeroed = {}
    /\ probe = NoProbe

NextMemory == PassBehavior

SpecMemory == InitMemory /\ [][NextMemory]_vars

ThreatsInReach(e, o) ==
    {x \in alive \ {e} :
        /\ D2(o.pos, org[x].pos) <= o.traits.sensory_range * o.traits.sensory_range
        /\ sensed_is_predator(o.type, o.size, org[x].type, org[x].size)
        /\ closer_than(D2(o.pos, org[x].pos), flee_threshold(o.traits, 1))}

\* The organisms that o records as predators within its sensory range.
ThreatsInSight(e, o) ==
    {x \in alive \ {e} :
        /\ D2(o.pos, org[x].pos) <= o.traits.sensory_range * o.traits.sensory_range
        /\ sensed_is_predator(o.type, o.size, org[x].type, org[x].size)}

\* C26 (as documented): an organism that is not Fleeing enters Fleeing in a
\* behavior pass only if in that pass a predator is visible closer than its
\* flee threshold; with no predator visible and a positive threat timer an
\* organism already Fleeing stays Fleeing, its target position the last known
\* threat position and no target entity.
C26_ThreatMemoryOnlyProlongsFleeing ==
    probe.op = "update_behavior" =>
        \A e \in alive :
            LET was == probe.before[e] now == org[e]
            IN /\ (was.behavior.state # "Fleeing" /\ now.behavior.state = "Fleeing")
                      => ThreatsInReach(e, was) # {}
               /\ (/\ was.behavior.state = "Fleeing"
                   /\ ThreatsInSight(e, was) = {}
                   /\ now.behavior.threat_timer > 0)
                      => /\ now.behavior.state = "Fleeing"
                         /\ now.behavior.target_position = was.behavior.recent_threat
                         /\ now.behavior.target_entity = None

\* C27: after every behavior pass the remembered threat position is set if and
\* only if the threat timer is positive: it is the predator's position whenever
\* one is visible, it is kept while the timer counts down, and it is cleared in
\* the pass in which the timer reaches 0.
C27_ThreatPositionFollowsTimer ==
    probe.op = "update_behavior" =>
        \A e \in alive :
            LET was == probe.before[e] now == org[e]
                seen == ThreatsInSight(e, was)
            IN /\ now.behavior.recent_threat # None <=> now.behavior.threat_timer > 0
               /\ seen # {} =>
                      \E x \in seen : now.behavior.recent_threat = Some(org[x].pos)
               /\ (seen = {} /\ now.behavior.threat_timer > 0) =>
                      now.behavior.recent_threat = was.behavior.recent_threat
               /\ (seen = {} /\ now.behavior.threat_timer = 0) =>
                      now.behavior.recent_threat = None

\* Over two passes a remembered threat was first kept while its timer counted
\* down and then cleared in the pass in which the timer reached 0.
C27_Witness ==
    /\ probe.op = "update_behavior" /\ tick = 2 /\ dt = 10
    /\ probe.before[1].traits.threat_decay_rate = 249
    /\ probe.before[1].behavior.threat_timer = 7010
    /\ probe.before[1].behavior.recent_threat = Some(<<9, 9>>)
    /\ org[1].behavior.threat_timer = 4520
    /\ org[1].behavior.recent_threat = Some(<<9, 9>>)


--------------------------------------------------------------------------
(* The consumption-pressure accumulators over an unbounded run of frames *)

\* The accumulator levels a cell starts a frame with: part filled by earlier
\* feeding, and close to the cap.
PressureLevels == {500, 9900}

\* A chunk of stocked cells whose accumulators earlier feeding has filled to
\* some level, and one organism on the cell <<0, 0>>, eating or not.
InitPressure ==
    /\ climate = ClimateDefault
    /\ pc = 1 /\ tick = 0 /\ hist = <<>> /\ nextEntity = 2 /\ dt = 200
    /\ alive = {1}
    /\ \E type \in Types, state \in {"Eating", "Wandering"}, current \in {1000, 4100},
          level \in PressureLevels, terrain \in {"Plains", "Desert"} :
          /\ state = "Eating" => level = 9900 /\ current = 4100
          /\ org = [e \in {1} |->
                       Organism(type, <<0, 0>>, Sturdy, current, state,
                                [i \in 1..GenomeLen |-> 50])]
          /\ grid = [c \in Cells |-> [StockedCell(level) EXCEPT !.terrain = terrain]]
    /\ spatial = [e \in alive |-> org[e].pos]
    /\ tracker = TrackerDefault
    /\ zeroed = {}
    /\ probe = NoProbe

\* The resource systems of one frame: regenerate_and_decay_resources, then
\* flow_resources.
ResourceFrame ==
    /\ hist = <<>>
    /\ hist' = <<"flow_resources">>
    /\ \E dirty \in BOOLEAN, active \in {{}, Cells} :
          LET regenerated ==
                  [c \in Cells |->
                      LET has_resources ==
                              \E r \in Resources : grid[c].resource_density[r] > 1
                      IN IF (dirty \/ c \in active) /\ (has_resources \/ c \in active)
                         THEN quantize_resources(
                                  decay_resources(regenerate_resources(grid[c], dt), dt), 1)
                         ELSE grid[c]]
          IN grid' = FlowFrom(RowMajor, 1, regenerated, regenerated, dt)
    /\ probe' = [op |-> "flow_resources"]
    /\ UNCHANGED <<climate, pc, tick, dt, alive, org, spatial, nextEntity, tracker, zeroed>>

\* The eating pass of the frame, which closes the frame.
FeedingFrame ==
    /\ hist = <<"flow_resources">>
    /\ hist' = <<>>
    /\ \E seq \in Orders(alive) :
          LET r == EatFrom(seq, 1, org, grid)
          IN org' = r.orgs /\ grid' = r.grid
    /\ probe' = [op |-> "handle_eating"]
    /\ UNCHANGED <<climate, pc, tick, dt, alive, spatial, nextEntity, tracker, zeroed>>

NextPressure == ResourceFrame \/ FeedingFrame

\* Both systems are scheduled in every frame.
SpecPressure ==
    InitPressure /\ [][NextPressure]_vars
        /\ WF_vars(ResourceFrame) /\ WF_vars(FeedingFrame)

\* No living organism is in state Eating, so no frame consumes anything.
NobodyEating == \A e \in alive : org[e].behavior.state # "Eating"

\* C24 (as documented): every consumption-pressure accumulator stays in [0,10]
\* after any sequence of eating passes, and while nothing is consumed a
\* positive accumulator eventually becomes smaller.
C24_PressureCappedAndDecaying ==
    /\ [](\A c \in Cells : \A r \in Resources :
             0 <= grid[c].resource_pressure[r] /\ grid[c].resource_pressure[r] <= 10000)
    /\ \A level \in PressureLevels :
          [](NobodyEating /\ (\A c \in Cells : \A r \in Resources :
                                 grid[c].resource_pressure[r] = level)
                => <>(\E c \in Cells : \E r \in Resources :
                         grid[c].resource_pressure[r] < level))


--------------------------------------------------------------------------
(* The cell resource API on its own *)

\* The arguments explored (1/1000): negative, zero, inside [0,1], above 1.
ApiAmounts == {-500, 0, 400, 1500}

\* One cell as Cell::default builds it, or already stocked inside [0,1].
InitCellApi ==
    /\ climate = ClimateDefault
    /\ pc = 1 /\ tick = 0 /\ hist = <<>> /\ nextEntity = 1 /\ dt = 0
    /\ alive = {} /\ org = <<>> /\ spatial = <<>>
    /\ \E start \in {0, 800} :
          grid = [c \in {<<0, 0>>} |-> CellWith([r \in Resources |-> start])]
    /\ tracker = TrackerDefault
    /\ zeroed = {}
    /\ probe = NoProbe

\* One call of Cell::set_resource.
CallSetResource ==
    /\ tick < MaxSteps
    /\ tick' = tick + 1
    /\ \E r \in Resources, value \in ApiAmounts :
          /\ grid' = [grid EXCEPT ![<<0, 0>>] = set_resource(@, r, value)]
          /\ probe' = [op |-> "set_resource", resource |-> r, value |-> value]
    /\ UNCHANGED <<climate, pc, dt, hist, alive, org, spatial, nextEntity, tracker, zeroed>>

\* One call of Cell::add_resource.
CallAddResource ==
    /\ tick < MaxSteps
    /\ tick' = tick + 1
    /\ \E r \in Resources, amount \in ApiAmounts :
          /\ grid' = [grid EXCEPT ![<<0, 0>>] = add_resource(@, r, amount)]
          /\ probe' = [op |-> "add_resource", resource |-> r, value |-> amount]
    /\ UNCHANGED <<climate, pc, dt, hist, alive, org, spatial, nextEntity, tracker, zeroed>>

NextCellApi == CallSetResource \/ CallAddResource

SpecCellApi == InitCellApi /\ [][NextCellApi]_vars

\* C25 (as documented): after any sequence of set_resource and add_resource
\* calls with arbitrary arguments, every resource density of the cell is in
\* [0,1].
C25_DensitiesStayInUnitRange ==
    \A c \in DOMAIN grid : \A r \in Resources :
        0 <= grid[c].resource_density[r] /\ grid[c].resource_density[r] <= 1000


--------------------------------------------------------------------------
(* The spatial index over whole ticks *)

\* C28: right after the rebuild pass of every tick the spatial index holds
\* exactly the living organisms, each at its current position: no entry of an
\* organism removed earlier, no position of an earlier tick, and an entry for
\* every organism the previous tick's reproduction pass spawned.
C28_IndexRebuiltFromLivingOrganisms ==
    LastRan = "update_spatial_hash" =>
        /\ DOMAIN spatial = alive
        /\ \A e \in alive : spatial[e] = org[e].pos
        /\ \A e \in 1..(nextEntity - 1) : e \notin alive => e \notin DOMAIN spatial

\* The second tick's rebuild found one organism removed, one spawned by the
\* first tick's reproduction pass and one that had moved.
C28_Witness ==
    /\ tick = 1 /\ LastRan = "update_spatial_hash"
    /\ 1 \notin alive
    /\ 3 \in alive /\ org[3].age = 0 /\ 3 \in DOMAIN spatial
    /\ 2 \in alive /\ org[2].pos # <<1, 0>> /\ spatial[2] = org[2].pos


--------------------------------------------------------------------------
(* The mate search of a reproduction event *)

\* The frame stands before its reproduction pass.  Organism 1 is ready to
\* reproduce; organisms 2 and 3, too low on energy to reproduce themselves,
\* stand nearer or farther, inside or outside its sensory range of 7, and are
\* of its species or of another.
InitMate ==
    /\ climate = ClimateDefault
    /\ pc = 7 /\ tick = 0 /\ dt = 0 /\ hist = SubSeq(PassOrder, 1, 6)
    /\ alive = {1, 2, 3} /\ nextEntity = 4
    /\ \E type \in Types, p2 \in {<<1, 0>>, <<9, 0>>}, p3 \in {<<3, 0>>, <<0, 6>>},
          s2 \in {0, 1}, s3 \in {0, 1} :
          org = [e \in {1, 2, 3} |->
                    IF e = 1
                    THEN Organism(type, <<0, 0>>, Sturdy, 4100, "Wandering",
                                  [i \in 1..GenomeLen |-> 50])
                    ELSE [Organism(type, IF e = 2 THEN p2 ELSE p3, Sturdy, 1000, "Wandering",
                                   [i \in 1..GenomeLen |-> IF e = 2 THEN 20 ELSE 80])
                             EXCEPT !.species = IF e = 2 THEN s2 ELSE s3]]
    /\ spatial = [e \in alive |-> org[e].pos]
    /\ grid = StartGrid
    /\ tracker = TrackerDefault
    /\ zeroed = {}
    /\ probe = NoProbe

\* The mate search of one event that attempts sexual reproduction.
ProbeFindMate ==
    /\ Runs("handle_reproduction")
    /\ \E p \in {e \in alive : CanReproduce(org[e])}, perm \in Orders(DOMAIN spatial) :
          probe' = [op |-> "find_mate", parent |-> p,
                    mate |-> find_mate(p, org[p], QueryVec(perm, org[p].pos,
                                                           org[p].traits.sensory_range))]
    /\ UNCHANGED <<climate, pc, tick, dt, hist, alive, org, spatial, nextEntity, grid, tracker,
                   zeroed>>

NextMate == ProbeFindMate \/ ReproductionPass

SpecMate == InitMate /\ [][NextMate]_vars

\* The other living organisms of o's species within o's sensory range, among
\* the organisms `orgs`.
MateCandidates(orgs, e) ==
    {x \in DOMAIN orgs \ {e} :
        /\ orgs[x].species = orgs[e].species
        /\ D2(orgs[e].pos, orgs[x].pos)
               <= orgs[e].traits.sensory_range * orgs[e].traits.sensory_range}

\* The nearest of the candidates.
NearestCandidates(orgs, e) ==
    {x \in MateCandidates(orgs, e) :
        \A y \in MateCandidates(orgs, e) :
            D2(orgs[e].pos, orgs[x].pos) <= D2(orgs[e].pos, orgs[y].pos)}

\* C29 (as documented): the mate of an event that attempts sexual reproduction
\* is the nearest other living organism of the parent's species within the
\* parent's sensory range, whatever the order of the query result; with a mate
\* every offspring is a crossover of the two genomes, and without one every
\* offspring is an asexual mutation of the parent's genome.
C29_MateIsNearestOfSpecies ==
    /\ probe.op = "find_mate" =>
           IF MateCandidates(org, probe.parent) = {} THEN probe.mate = None
           ELSE probe.mate # None /\ Get(probe.mate) \in NearestCandidates(org, probe.parent)
    /\ probe.op = "handle_reproduction" =>
           \A p \in probe.parents : \A kid \in alive \ DOMAIN probe.before :
               LET was == probe.before
                   asexual == {clone_with_mutation(was[p].genome, m) : m \in MutationDraws}
                   sexual == {crossover(was[p].genome, was[x].genome, f, m) :
                                 x \in NearestCandidates(was, p),
                                 f \in CrossoverDraws, m \in MutationDraws}
               IN /\ org[kid].genome \in asexual \cup sexual
                  /\ MateCandidates(was, p) = {} => org[kid].genome \in asexual

--------------------------------------------------------------------------
(* The climate events over a run of climate updates *)

MaxUpdates == 400

\* The climate resource as inserted at startup; no organisms, one empty cell.
\* The probe keeps, next to the climate state, the update at which each
\* active event was spawned and the update of the latest spawn.
InitClimate ==
    /\ climate = ClimateDefault
    /\ pc = 1 /\ tick = 0 /\ hist = <<>> /\ nextEntity = 1 /\ dt = 0
    /\ alive = {} /\ org = <<>> /\ spatial = <<>>
    /\ grid = [c \in {<<0, 0>>} |-> CellWith(ZeroResources)]
    /\ tracker = TrackerDefault
    /\ zeroed = {}
    /\ probe = [op |-> "none", spawned |-> FALSE, previous |-> None,
                last |-> None, born |-> <<>>]

\* One run of update_climate: one call of ClimateState::update.
ClimateUpdate ==
    /\ climate.time < MaxUpdates
    /\ \E roll \in BOOLEAN, kind \in EventKinds, r \in CooldownDraws :
          LET new     == update(climate, roll, kind, r)
              fresh   == \E i \in 1..Len(new.events) :
                            new.events[i].time_remaining = Duration(new.events[i].kind)
              staying == SelectSeq([i \in 1..Len(climate.events) |->
                                       [at   |-> probe.born[i],
                                        left |-> climate.events[i].time_remaining]],
                                   LAMBDA b : b.left > CLIMATE_DT)
              births  == [i \in 1..Len(staying) |-> staying[i].at]
          IN  /\ climate' = new
              /\ probe' = [op       |-> "update",
                           spawned  |-> fresh,
                           previous |-> probe.last,
                           last     |-> IF fresh THEN Some(new.time) ELSE probe.last,
                           born     |-> IF fresh THEN Append(births, new.time)
                                                 ELSE births]
    /\ UNCHANGED <<pc, tick, dt, hist, alive, org, spatial, nextEntity, grid, tracker,
                   zeroed>>

NextClimate == ClimateUpdate

SpecClimate == InitClimate /\ [][NextClimate]_vars

\* C30: two successive event spawns are at least 120 climate updates apart;
\* an event that is still there after an update has a positive countdown,
\* which is its duration less the updates since its spawn, so every event is
\* removed in the update in which its countdown reaches 0, at most 220
\* updates after its spawn; and at most two events are active at any time.
C30_EventsSpacedAndAtMostTwoActive ==
    /\ (probe.spawned /\ probe.previous # None)
          => climate.time - Get(probe.previous) >= 120
    /\ Len(probe.born) = Len(climate.events)
    /\ \A i \in 1..Len(climate.events) :
          LET event == climate.events[i]
              age   == climate.time - probe.born[i]
          IN  /\ event.time_remaining > 0
              /\ event.time_remaining = Duration(event.kind) - age * CLIMATE_DT
              /\ age < 220
    /\ Len(climate.events) <= 2

\* A second event is spawned exactly 120 updates after the first, which is
\* still active.
C30_Witness ==
    /\ probe.op = "update" /\ probe.spawned /\ probe.previous # None
    /\ climate.time - Get(probe.previous) = 120
    /\ Len(climate.events) = 2

==========================================================================
